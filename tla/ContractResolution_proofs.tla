---------------------- MODULE ContractResolution_proofs ----------------------
(***************************************************************************)
(* Theorems about ContractResolution, for every set of calls, options,     *)
(* listings, chains and errors.  What is inductive is said of one call     *)
(* (CallOk), as a function of the call, of what it met (begun), of the     *)
(* listing and of the keys of the cache: as the last two only grow, it is  *)
(* kept whatever the other calls do.                                       *)
(*                                                                         *)
(* The strikes of an answer are sorted by InOrder: every finite set has    *)
(* its elements in a row (RowExists), by induction on how many it has.     *)
(***************************************************************************)
EXTENDS ContractResolution, SequenceTheorems, FiniteSetTheorems, WellFoundedInduction, TLAPS

\* Matching, in a listing l.
Match(l, query, ex) ==
  {entry \in l : entry[2] = ex /\ IsPrefix(query, entry[1])
                 /\ (query = Stock => entry[1] = Stock)}

\* Details that were listed for a query on an exchange.
Details(l, details, query, ex) ==
  /\ IsFiniteSet(DOMAIN details)
  /\ \A i \in DOMAIN details : details[i] \in Match(l, query, ex)

CallFields  == {"at", "op", "query", "todo", "hand", "err", "answer"}
BegunFields == {"plan", "listed", "cached", "asked", "erred"}

Searching(cl)    == cl.at \in {"look", "fetch", "insert"}
Position(cl, bg) == Len(bg.plan) - Len(cl.todo) + 1

\* What is left to try is the end of the plan.
OnPlan(cl, bg) ==
  /\ bg.plan \in Seq(Exchange) /\ cl.todo \in Seq(Exchange)
  /\ cl.todo # <<>> /\ Len(cl.todo) <= Len(bg.plan)
  /\ \A i \in 1 .. Len(cl.todo) : cl.todo[i] = bg.plan[Len(bg.plan) - Len(cl.todo) + i]

\* What was listed or cached when the call began still is.
Known(l, keys, cl, bg) ==
  /\ bg.listed \subseteq DOMAIN bg.plan /\ bg.cached \subseteq DOMAIN bg.plan
  /\ \A i \in bg.listed : Match(l, cl.query, bg.plan[i]) # {}
  /\ \A i \in bg.cached : <<cl.query, bg.plan[i]>> \in keys

\* The search has not passed by an exchange that had the contract, unless
\* there was an error, nor one whose answer was cached.
Ahead(cl, bg) ==
  /\ bg.erred \/ \A i \in bg.listed : Position(cl, bg) <= i
  /\ \A i \in bg.cached : Position(cl, bg) <= i /\ (cl.at # "look" => Position(cl, bg) < i)

\* A call that found something, and one that did not.
FoundRightly(l, cl, bg) ==
  cl.hand # Empty /\ cl.at \in {"request", "done"} =>
    /\ Details(l, cl.hand, cl.query, bg.plan[bg.asked])
    /\ bg.erred \/ \A i \in bg.listed : bg.asked <= i

MissedRightly(cl, bg) ==
  cl.at = "failed" /\ cl.hand = Empty =>
    /\ bg.erred \/ bg.listed = {}
    /\ bg.cached = {}

CallOk(l, keys, cl, bg) ==
  /\ DOMAIN cl = CallFields /\ DOMAIN bg = BegunFields
  /\ Searching(cl) => OnPlan(cl, bg) /\ Known(l, keys, cl, bg) /\ Ahead(cl, bg)
  /\ cl.at = "insert" => cl.hand # Empty /\ Details(l, cl.hand, cl.query, Head(cl.todo))
  /\ cl.at = "request" => cl.hand # Empty
  /\ FoundRightly(l, cl, bg)
  /\ MissedRightly(cl, bg)

CacheOk ==
  \A k \in DOMAIN cache : cache[k] # Empty /\ Details(listing, cache[k], k[1], k[2])

IInv ==
  /\ IsFiniteSet(listing)
  /\ DOMAIN call = Task /\ DOMAIN begun = Task
  /\ CacheOk
  /\ \A t \in Task : CallOk(listing, DOMAIN cache, call[t], begun[t])

-----------------------------------------------------------------------------
(* The lemmas: what growing listings keep, and what ends a search.         *)

\* Details stay listed.
LEMMA DetailsStay ==
  ASSUME NEW l, NEW m, l \subseteq m, NEW details, NEW query, NEW ex,
         Details(l, details, query, ex)
  PROVE  Details(m, details, query, ex)
BY DEF Details, Match

\* A call is not disturbed by listings and insertions.
LEMMA CallStaysOk ==
  ASSUME NEW l, NEW m, l \subseteq m, NEW keys, NEW more, keys \subseteq more,
         NEW cl, NEW bg, CallOk(l, keys, cl, bg)
  PROVE  CallOk(m, more, cl, bg)
<1>1. ASSUME NEW query, NEW ex PROVE Match(l, query, ex) \subseteq Match(m, query, ex)
  BY DEF Match
<1>2. Known(l, keys, cl, bg) => Known(m, more, cl, bg)
  BY <1>1 DEF Known
<1>3. cl.at = "insert" => cl.hand # Empty /\ Details(m, cl.hand, cl.query, Head(cl.todo))
  BY DetailsStay DEF CallOk
<1>4. FoundRightly(m, cl, bg)
  BY DetailsStay DEF CallOk, FoundRightly
<1> QED BY <1>2, <1>3, <1>4 DEF CallOk

\* The exchange a search asks is the one the plan has at its position.
LEMMA AskedIsPlanned ==
  ASSUME NEW cl, NEW bg, OnPlan(cl, bg)
  PROVE  /\ Position(cl, bg) \in DOMAIN bg.plan
         /\ Head(cl.todo) = bg.plan[Position(cl, bg)]
         /\ Len(bg.plan) \in Nat /\ Len(cl.todo) \in Nat \ {0}
         /\ DOMAIN bg.plan = 1 .. Len(bg.plan)
<1>1. /\ Len(bg.plan) \in Nat /\ Len(cl.todo) \in Nat \ {0}
      /\ DOMAIN bg.plan = 1 .. Len(bg.plan) /\ Len(cl.todo) <= Len(bg.plan)
  BY EmptySeq, LenProperties DEF OnPlan
<1>2. Position(cl, bg) \in DOMAIN bg.plan
  <2>1. \A m \in Nat, n \in Nat \ {0} : n <= m => m - n + 1 \in 1 .. m
    OBVIOUS
  <2> QED BY <1>1, <2>1 DEF Position
<1>3. Head(cl.todo) = cl.todo[1] /\ 1 \in 1 .. Len(cl.todo)
  BY <1>1, HeadTailProperties DEF OnPlan
<1>4. cl.todo[1] = bg.plan[Position(cl, bg)]
  BY <1>1, <1>3 DEF OnPlan, Position
<1> QED BY <1>1, <1>2, <1>3, <1>4

\* Arithmetic on places: one exchange fewer to ask is one place further on.
LEMMA Shorter ==
  ASSUME NEW m \in Nat, NEW n \in Nat \ {0}, n > 1, n <= m
  PROVE  n - 1 # 0 /\ n - 1 <= m
OBVIOUS

LEMMA Shifted ==
  ASSUME NEW m \in Nat, NEW n \in Nat \ {0}, NEW j \in Nat
  PROVE  m - n + (j + 1) = m - (n - 1) + j
OBVIOUS

LEMMA NextPlace ==
  ASSUME NEW m \in Nat, NEW n \in Nat \ {0}
  PROVE  m - (n - 1) + 1 = (m - n + 1) + 1
OBVIOUS

LEMMA LastPlace ==
  ASSUME NEW m \in Nat, NEW n \in Nat \ {0}, ~(n > 1)
  PROVE  m - n + 1 = m
OBVIOUS

\* Going on is right when the exchange had nothing: nothing listed, unless
\* there was an error, and nothing in the cache.
LEMMA ContinueOk ==
  ASSUME NEW l, NEW keys, NEW cl, NEW bg, NEW bg2, NEW err,
         CallOk(l, keys, cl, bg), Searching(cl), DOMAIN bg2 = BegunFields,
         bg2.plan = bg.plan, bg2.listed = bg.listed, bg2.cached = bg.cached,
         bg2.erred \/ (bg2.erred = bg.erred /\ Position(cl, bg) \notin bg.listed),
         \A i \in bg.cached : Position(cl, bg) < i
  PROVE  CallOk(l, keys, Continue(cl, err), bg2)
<1> DEFINE next == Continue(cl, err)
<1>1. /\ OnPlan(cl, bg) /\ Known(l, keys, cl, bg) /\ Ahead(cl, bg) /\ DOMAIN cl = CallFields
  BY DEF CallOk
<1>2. /\ Position(cl, bg) \in DOMAIN bg.plan
      /\ Len(bg.plan) \in Nat /\ Len(cl.todo) \in Nat \ {0}
      /\ DOMAIN bg.plan = 1 .. Len(bg.plan)
  BY <1>1, AskedIsPlanned
\* All that was listed or cached comes later.
<1>3. /\ bg2.erred \/ \A i \in bg.listed : Position(cl, bg) + 1 <= i
      /\ \A i \in bg.cached : Position(cl, bg) + 1 <= i
  BY <1>1, <1>2 DEF Known, Ahead
<1>4. CASE Len(cl.todo) > 1
  <2>1. /\ next.at = "look" /\ next.todo = Tail(cl.todo) /\ next.hand = Empty
        /\ next.query = cl.query /\ DOMAIN next = CallFields
    BY <1>1, <1>4 DEF Continue, CallFields
  <2>2. /\ Tail(cl.todo) \in Seq(Exchange) /\ Len(Tail(cl.todo)) = Len(cl.todo) - 1
        /\ \A i \in 1 .. Len(cl.todo) - 1 : Tail(cl.todo)[i] = cl.todo[i + 1]
    BY <1>1, HeadTailProperties DEF OnPlan
  <2>3. OnPlan(next, bg2)
    <3>1. Tail(cl.todo) # <<>> /\ Len(Tail(cl.todo)) <= Len(bg.plan)
      <4>1. Len(cl.todo) <= Len(bg.plan)
        BY <1>1 DEF OnPlan
      <4>2. Len(cl.todo) - 1 # 0 /\ Len(cl.todo) - 1 <= Len(bg.plan)
        BY <1>2, <1>4, <4>1, Shorter
      <4>3. Len(Tail(cl.todo)) # 0 /\ Len(Tail(cl.todo)) <= Len(bg.plan)
        BY <2>2, <4>2, Zenon
      <4>4. Len(<<>>) = 0
        BY EmptySeq, Zenon
      <4> QED BY <4>3, <4>4, Zenon
    <3>2. ASSUME NEW i \in 1 .. Len(Tail(cl.todo))
          PROVE  Tail(cl.todo)[i] = bg.plan[Len(bg.plan) - Len(Tail(cl.todo)) + i]
      <4>1. i + 1 \in 1 .. Len(cl.todo) /\ i \in 1 .. Len(cl.todo) - 1
        BY <1>2, <2>2
      <4>2. cl.todo[i + 1] = bg.plan[Len(bg.plan) - Len(cl.todo) + (i + 1)]
        BY <1>1, <4>1 DEF OnPlan
      <4>3. Len(bg.plan) - Len(cl.todo) + (i + 1) = Len(bg.plan) - Len(Tail(cl.todo)) + i
        <5>1. i \in Nat
          BY <1>2, <4>1
        <5>2. Len(bg.plan) - Len(cl.todo) + (i + 1) = Len(bg.plan) - (Len(cl.todo) - 1) + i
          BY <1>2, <5>1, Shifted
        <5> QED BY <2>2, <5>2
      <4> QED BY <2>2, <4>1, <4>2, <4>3
    <3> QED BY <1>1, <2>1, <2>2, <3>1, <3>2 DEF OnPlan
  <2>4. Position(next, bg2) = Position(cl, bg) + 1
    <3>1. Len(bg.plan) - (Len(cl.todo) - 1) + 1 = (Len(bg.plan) - Len(cl.todo) + 1) + 1
      BY <1>2, NextPlace
    <3> QED BY <2>1, <2>2, <3>1 DEF Position
  <2>5. Ahead(next, bg2)
    BY <1>3, <2>1, <2>4 DEF Ahead
  <2>6. Known(l, keys, next, bg2)
    BY <1>1, <2>1 DEF Known
  <2> QED
    BY <2>1, <2>3, <2>5, <2>6 DEF CallOk, FoundRightly, MissedRightly
<1>5. CASE ~(Len(cl.todo) > 1)
  <2>1. next.at = "failed" /\ next.hand = Empty /\ DOMAIN next = CallFields
    BY <1>1, <1>5 DEF Continue, CallFields
  <2>2. Position(cl, bg) = Len(bg.plan)
    <3>1. Len(bg.plan) - Len(cl.todo) + 1 = Len(bg.plan)
      BY <1>2, <1>5, LastPlace
    <3> QED BY <3>1 DEF Position
  <2>3. (bg2.erred \/ bg.listed = {}) /\ bg.cached = {}
    BY <1>1, <1>2, <1>3, <2>2 DEF Known
  <2> QED
    BY <2>1, <2>3 DEF CallOk, FoundRightly, MissedRightly, Searching
<1> QED BY <1>4, <1>5

\* Details that match end a search rightly.
LEMMA ResolvedOk ==
  ASSUME NEW l, NEW keys, NEW cl, NEW bg, NEW bg2, NEW details,
         CallOk(l, keys, cl, bg), Searching(cl), details # Empty,
         Details(l, details, cl.query, Head(cl.todo)),
         bg2 = [bg EXCEPT !.asked = Position(cl, bg)]
  PROVE  CallOk(l, keys, Resolved(cl, details), bg2)
<1> DEFINE next == Resolved(cl, details)
<1>1. OnPlan(cl, bg) /\ Ahead(cl, bg) /\ DOMAIN cl = CallFields /\ DOMAIN bg = BegunFields
  BY DEF CallOk
<1>2. /\ next.at \in {"request", "done"} /\ next.hand = details
      /\ next.query = cl.query /\ DOMAIN next = CallFields
  BY <1>1 DEF Resolved, CallFields
<1>3. /\ bg2.asked = Position(cl, bg) /\ bg2.plan = bg.plan /\ bg2.listed = bg.listed
      /\ bg2.erred = bg.erred /\ DOMAIN bg2 = BegunFields
  BY <1>1 DEF BegunFields
<1>4. FoundRightly(l, next, bg2)
  BY <1>1, <1>2, <1>3, AskedIsPlanned DEF FoundRightly, Ahead
<1> QED
  BY <1>2, <1>3, <1>4 DEF CallOk, MissedRightly, Searching

\* The gateway's answer is a sequence of what it lists, empty if it lists nothing.
LEMMA SequencesOfASet ==
  ASSUME NEW S, IsFiniteSet(S), NEW s \in SetToSeqs(S)
  PROVE  /\ \A i \in DOMAIN s : s[i] \in S
         /\ IsFiniteSet(DOMAIN s)
         /\ s = Empty => S = {}
<1>1. s \in [1 .. Cardinality(S) -> S]
  BY DEF SetToSeqs
<1>0. IsFiniteSet(DOMAIN s)
  <2>1. DOMAIN s = 1 .. Cardinality(S) /\ Cardinality(S) \in Int
    BY <1>1, FS_CardinalityType
  <2> QED BY <2>1, FS_Interval
<1>2. ASSUME s = Empty PROVE S = {}
  <2>1. DOMAIN s = {} /\ DOMAIN s = 1 .. Cardinality(S)
    BY <1>1, <1>2 DEF Empty
  <2>2. Cardinality(S) \in Nat
    BY FS_CardinalityType
  <2>3. Cardinality(S) = 0
    BY <2>1, <2>2
  <2> QED BY <2>3, FS_EmptySet
<1> QED BY <1>0, <1>1, <1>2

-----------------------------------------------------------------------------
(* The steps.                                                              *)

\* A search that settles on the details in hand settles rightly.
LEMMA SettleOk ==
  ASSUME IInv, NEW t \in Task, NEW details, Settle(t, details), Searching(call[t]),
         details # Empty => Details(listing, details, call[t].query, Head(call[t].todo)),
         details = Empty => /\ Position(call[t], begun[t]) \notin begun[t].listed
                            /\ \A i \in begun[t].cached : Position(call[t], begun[t]) < i
  PROVE  /\ DOMAIN call' = Task /\ DOMAIN begun' = Task
         /\ CallOk(listing, DOMAIN cache, call'[t], begun'[t])
         /\ \A u \in Task \ {t} : call'[u] = call[u] /\ begun'[u] = begun[u]
<1>1. CallOk(listing, DOMAIN cache, call[t], begun[t]) /\ DOMAIN call = Task /\ DOMAIN begun = Task
  BY DEF IInv
<1>2. begun'[t] = [begun[t] EXCEPT !.asked = Position(call[t], begun[t])]
  BY <1>1 DEF Settle, Position
<1>3. CASE details = Empty
  <2>1. call'[t] = Continue(call[t], "ContractResolution")
    BY <1>1, <1>3 DEF Settle
  <2>2. /\ DOMAIN begun'[t] = BegunFields /\ begun'[t].plan = begun[t].plan
        /\ begun'[t].listed = begun[t].listed /\ begun'[t].cached = begun[t].cached
        /\ begun'[t].erred = begun[t].erred
    BY <1>1, <1>2 DEF CallOk, BegunFields
  <2> QED BY <1>1, <1>3, <2>1, <2>2, ContinueOk DEF Settle
<1>4. CASE details # Empty
  <2>1. call'[t] = Resolved(call[t], details)
    BY <1>1, <1>4 DEF Settle
  <2> QED BY <1>1, <1>2, <1>4, <2>1, ResolvedOk DEF Settle
<1> QED BY <1>3, <1>4

\* A step that changes one call, and lets listing and cache grow, keeps IInv.
LEMMA OneCall ==
  ASSUME IInv, NEW t \in Task,
         IsFiniteSet(listing'), listing \subseteq listing', DOMAIN cache \subseteq DOMAIN cache',
         CacheOk', DOMAIN call' = Task, DOMAIN begun' = Task,
         CallOk(listing, DOMAIN cache, call'[t], begun'[t]),
         \A u \in Task \ {t} : call'[u] = call[u] /\ begun'[u] = begun[u]
  PROVE  IInv'
<1> SUFFICES ASSUME NEW u \in Task
             PROVE  CallOk(listing', DOMAIN cache', call'[u], begun'[u])
  BY DEF IInv
<1>1. CallOk(listing, DOMAIN cache, call'[u], begun'[u])
  BY DEF IInv
<1> QED BY <1>1, CallStaysOk

\* Every step of a call keeps IInv.
LEMMA StepKeeps == ASSUME IInv, NEW t \in Task, Step(t) PROVE IInv'
<1> DEFINE cl == call[t]
           bg == begun[t]
<1>1. /\ CallOk(listing, DOMAIN cache, cl, bg) /\ IsFiniteSet(listing) /\ CacheOk
      /\ DOMAIN call = Task /\ DOMAIN begun = Task
  BY DEF IInv
<1>2. ASSUME Searching(cl)
      PROVE  /\ OnPlan(cl, bg) /\ Known(listing, DOMAIN cache, cl, bg) /\ Ahead(cl, bg)
             /\ Head(cl.todo) = bg.plan[Position(cl, bg)]
             /\ Position(cl, bg) \in Nat /\ \A i \in bg.cached : i \in Nat
  <2>1. OnPlan(cl, bg) /\ Known(listing, DOMAIN cache, cl, bg) /\ Ahead(cl, bg)
    BY <1>1, <1>2 DEF CallOk
  <2>2. /\ Head(cl.todo) = bg.plan[Position(cl, bg)] /\ Position(cl, bg) \in DOMAIN bg.plan
        /\ DOMAIN bg.plan = 1 .. Len(bg.plan) /\ Len(bg.plan) \in Nat
    BY <2>1, AskedIsPlanned
  <2> QED BY <2>1, <2>2 DEF Known
<1>3. Key(t) = <<cl.query, Head(cl.todo)>>
  BY DEF Key, contract_cache_key, Asked
\* A step that leaves the listing and the cache alone.
<1>4. ASSUME UNCHANGED <<listing, cache>>, DOMAIN call' = Task, DOMAIN begun' = Task,
             CallOk(listing, DOMAIN cache, call'[t], begun'[t]),
             \A u \in Task \ {t} : call'[u] = call[u] /\ begun'[u] = begun[u]
      PROVE  IInv'
  BY <1>1, <1>4, OneCall DEF CacheOk
<1>5. CASE LookHits(t)
  <2>1. /\ Searching(cl) /\ Key(t) \in DOMAIN cache /\ UNCHANGED <<listing, cache>>
        /\ Settle(t, cache[Key(t)])
    BY <1>5 DEF LookHits, Hit, Searching
  <2>2. cache[Key(t)] # Empty /\ Details(listing, cache[Key(t)], cl.query, Head(cl.todo))
    BY <1>1, <1>3, <2>1 DEF CacheOk
  <2> QED BY <1>4, <2>1, <2>2, SettleOk
<1>6. CASE LookMisses(t)
  <2>1. /\ cl.at = "look" /\ Key(t) \notin DOMAIN cache /\ UNCHANGED <<listing, cache, begun>>
        /\ call' = [call EXCEPT ![t].at = "fetch"]
    BY <1>6 DEF LookMisses, Hit
  <2>2. /\ call'[t] = [cl EXCEPT !.at = "fetch"] /\ DOMAIN call' = Task
        /\ \A u \in Task \ {t} : call'[u] = call[u]
    BY <1>1, <2>1
  <2>3. /\ call'[t].at = "fetch" /\ call'[t].query = cl.query /\ call'[t].todo = cl.todo
        /\ DOMAIN call'[t] = CallFields
    BY <1>1, <2>2 DEF CallOk, CallFields
  <2>4. /\ OnPlan(cl, bg) /\ Known(listing, DOMAIN cache, cl, bg) /\ Ahead(cl, bg)
        /\ Head(cl.todo) = bg.plan[Position(cl, bg)]
        /\ Position(cl, bg) \in Nat /\ \A i \in bg.cached : i \in Nat
    BY <1>2, <2>1 DEF Searching
  <2>5. \A i \in bg.cached : i # Position(cl, bg)
    BY <1>3, <2>1, <2>4 DEF Known
  <2>6. Position(call'[t], bg) = Position(cl, bg)
    BY <2>3 DEF Position
  <2>7. Ahead(call'[t], bg)
    BY <2>4, <2>5, <2>6 DEF Ahead
  <2>8. OnPlan(call'[t], bg) /\ Known(listing, DOMAIN cache, call'[t], bg)
    BY <2>3, <2>4 DEF OnPlan, Known
  <2>9. CallOk(listing, DOMAIN cache, call'[t], bg)
    BY <1>1, <2>3, <2>7, <2>8 DEF CallOk, FoundRightly, MissedRightly
  <2> QED BY <1>1, <1>4, <2>1, <2>2, <2>9
<1>7. CASE FetchReturns(t)
  <2>1. PICK details \in SetToSeqs(Matching(cl.query, Asked(t))) :
          IF Cacheable(details)
          THEN /\ call' = [call EXCEPT ![t].at = "insert", ![t].hand = details]
               /\ UNCHANGED begun
          ELSE Settle(t, details)
    BY <1>7 DEF FetchReturns
  <2>2. cl.at = "fetch" /\ Searching(cl) /\ UNCHANGED <<listing, cache>>
    BY <1>7 DEF FetchReturns, Searching
  <2>3. Matching(cl.query, Asked(t)) = Match(listing, cl.query, Head(cl.todo))
    BY DEF Matching, Match, Asked
  <2>4. /\ \A i \in DOMAIN details : details[i] \in Match(listing, cl.query, Head(cl.todo))
        /\ IsFiniteSet(DOMAIN details)
        /\ details = Empty => Match(listing, cl.query, Head(cl.todo)) = {}
    <3>1. IsFiniteSet(Match(listing, cl.query, Head(cl.todo)))
      BY <1>1, FS_Subset DEF Match
    <3> QED BY <2>1, <2>3, <3>1, SequencesOfASet
  <2>5. /\ OnPlan(cl, bg) /\ Known(listing, DOMAIN cache, cl, bg) /\ Ahead(cl, bg)
        /\ Head(cl.todo) = bg.plan[Position(cl, bg)]
    BY <1>2, <2>2
  <2>6. CASE Cacheable(details)
    <3>1. /\ call' = [call EXCEPT ![t].at = "insert", ![t].hand = details]
          /\ UNCHANGED begun /\ details # Empty
      BY <2>1, <2>6 DEF Cacheable
    <3>2. /\ call'[t] = [cl EXCEPT !.at = "insert", !.hand = details] /\ DOMAIN call' = Task
          /\ \A u \in Task \ {t} : call'[u] = call[u]
      BY <1>1, <3>1
    <3>3. /\ call'[t].at = "insert" /\ call'[t].query = cl.query /\ call'[t].todo = cl.todo
          /\ call'[t].hand = details /\ DOMAIN call'[t] = CallFields
      BY <1>1, <3>2 DEF CallOk, CallFields
    <3>4. OnPlan(call'[t], bg) /\ Known(listing, DOMAIN cache, call'[t], bg) /\ Ahead(call'[t], bg)
      BY <2>2, <2>5, <3>3 DEF OnPlan, Known, Ahead, Position
    <3>5. CallOk(listing, DOMAIN cache, call'[t], bg)
      BY <1>1, <2>4, <3>1, <3>3, <3>4 DEF CallOk, FoundRightly, MissedRightly, Details
    <3> QED BY <1>1, <1>4, <2>2, <3>1, <3>2, <3>5
  <2>7. CASE ~Cacheable(details)
    <3>1. Settle(t, details) /\ details = Empty
      BY <2>1, <2>7 DEF Cacheable
    <3>2. Position(cl, bg) \notin bg.listed /\ \A i \in bg.cached : Position(cl, bg) < i
      BY <2>2, <2>4, <2>5, <3>1 DEF Known, Ahead
    <3> QED BY <1>4, <2>2, <3>1, <3>2, SettleOk
  <2> QED BY <2>6, <2>7
<1>8. CASE Insert(t)
  <2>1. /\ cl.at = "insert" /\ Searching(cl) /\ UNCHANGED listing /\ Settle(t, cl.hand)
        /\ cache' = [k \in DOMAIN cache \union {Key(t)} |->
                       IF k = Key(t) THEN cl.hand ELSE cache[k]]
    BY <1>8 DEF Insert, Searching
  <2>2. cl.hand # Empty /\ Details(listing, cl.hand, cl.query, Head(cl.todo))
    BY <1>1, <2>1 DEF CallOk
  <2>3. CacheOk'
    <3> SUFFICES ASSUME NEW k \in DOMAIN cache'
                 PROVE  cache'[k] # Empty /\ Details(listing, cache'[k], k[1], k[2])
      BY <2>1 DEF CacheOk
    <3>1. CASE k = Key(t)
      <4>1. cache'[k] = cl.hand /\ k[1] = cl.query /\ k[2] = Head(cl.todo)
        BY <1>3, <2>1, <3>1
      <4> QED BY <2>2, <4>1
    <3>2. CASE k # Key(t)
      BY <1>1, <2>1, <3>2 DEF CacheOk
    <3> QED BY <3>1, <3>2
  <2>4. DOMAIN cache \subseteq DOMAIN cache'
    BY <2>1
  <2> QED BY <1>1, <2>1, <2>2, <2>3, <2>4, SettleOk, OneCall
<1>9. ASSUME NEW e \in LookupErrors, FetchFails(t, e) PROVE IInv'
  <2>1. /\ cl.at = "fetch" /\ Searching(cl) /\ UNCHANGED <<listing, cache>>
        /\ call' = [call EXCEPT ![t] = Continue(@, FromIbapi(e).kind)]
        /\ begun' = [begun EXCEPT ![t].erred = TRUE]
    BY <1>9 DEF FetchFails, Searching
  <2>2. /\ call'[t] = Continue(cl, FromIbapi(e).kind) /\ DOMAIN call' = Task
        /\ begun'[t] = [bg EXCEPT !.erred = TRUE] /\ DOMAIN begun' = Task
        /\ \A u \in Task \ {t} : call'[u] = call[u] /\ begun'[u] = begun[u]
    BY <1>1, <2>1
  <2>3. /\ DOMAIN begun'[t] = BegunFields /\ begun'[t].plan = bg.plan /\ begun'[t].erred
        /\ begun'[t].listed = bg.listed /\ begun'[t].cached = bg.cached
    BY <1>1, <2>2 DEF CallOk, BegunFields
  <2>4. \A i \in bg.cached : Position(cl, bg) < i
    BY <1>2, <2>1 DEF Ahead
  <2>5. CallOk(listing, DOMAIN cache, call'[t], begun'[t])
    BY <1>1, <2>1, <2>2, <2>3, <2>4, ContinueOk
  <2> QED BY <1>4, <2>1, <2>2, <2>5
\* The chain: the contract stays in hand.
<1>10. CASE ChainArrives(t) \/ ChainMissing(t)
  <2>1. cl.at = "request" /\ UNCHANGED <<listing, cache, begun>>
    BY <1>10 DEF ChainArrives, ChainMissing
  <2>2. /\ DOMAIN call' = Task /\ \A u \in Task \ {t} : call'[u] = call[u]
        /\ call'[t].at \in {"request", "done", "failed"} /\ call'[t].hand = cl.hand
        /\ call'[t].query = cl.query /\ DOMAIN call'[t] = CallFields
    <3>1. DOMAIN cl = CallFields
      BY <1>1 DEF CallOk
    <3>2. CASE ChainArrives(t)
      BY <1>1, <3>1, <3>2 DEF ChainArrives, CallFields
    <3>3. CASE ChainMissing(t)
      BY <1>1, <2>1, <3>1, <3>3 DEF ChainMissing, CallFields
    <3> QED BY <1>10, <3>2, <3>3
  <2>4. CallOk(listing, DOMAIN cache, call'[t], bg)
    BY <1>1, <2>1, <2>2 DEF CallOk, FoundRightly, MissedRightly, Searching
  <2> QED BY <1>1, <1>4, <2>1, <2>2, <2>4
<1> QED
  BY <1>5, <1>6, <1>7, <1>8, <1>9, <1>10 DEF Step
\* Every call asks at least one exchange.
LEMMA PlanIsAPlan ==
  ASSUME NEW op, NEW ex \in Preferred
  PROVE  Plan(op, ex) \in Seq(Exchange) /\ Plan(op, ex) # <<>>
<1>1. ex \in Exchange /\ {"SMART", "CBOE", "ARCA", "NASDAQ", ""} \subseteq Exchange
  BY ExchangesAssumption DEF Exchange
<1>2. /\ "SMART" \in Exchange /\ "CBOE" \in Exchange /\ "ARCA" \in Exchange
      /\ "NASDAQ" \in Exchange /\ "" \in Exchange
  BY <1>1
<1> HIDE DEF Exchange
<1>3. \A a \in Exchange : <<a>> \in Seq(Exchange) /\ <<a>> # <<>>
  OBVIOUS
<1>4. \A a, b \in Exchange : <<a, b>> \in Seq(Exchange) /\ <<a, b>> # <<>>
  OBVIOUS
<1>5. \A a, b, c, d, e \in Exchange :
        <<a, b, c, d, e>> \in Seq(Exchange) /\ <<a, b, c, d, e>> # <<>>
  OBVIOUS
<1>6. CASE op = "chain"
  <2>1. Plan(op, ex) = <<"SMART", "CBOE", "ARCA", "NASDAQ", "">>
    BY <1>6 DEF Plan
  <2> QED BY <1>2, <1>5, <2>1, ZenonT(60)
<1>7. CASE op # "chain" /\ op \in {"resolve", "strikes"} /\ ex \notin {"", "SMART"}
  <2>1. Plan(op, ex) = <<ex, "">>
    BY <1>7 DEF Plan
  <2> QED BY <1>1, <1>2, <1>4, <2>1, Zenon
<1>8. CASE op # "chain" /\ ~(op \in {"resolve", "strikes"} /\ ex \notin {"", "SMART"})
  <2>1. Plan(op, ex) = <<ex>>
    BY <1>8 DEF Plan
  <2> QED BY <1>1, <1>3, <2>1, Zenon
<1> HIDE DEF Plan
<1> QED BY <1>6, <1>7, <1>8

\* A new call has its plan before it; the task that starts it was idle.
LEMMA StartKeeps ==
  ASSUME IInv, NEW t \in Task, NEW op \in Op, NEW ex \in Preferred, NEW query, Start(t, op, query, ex)
  PROVE  IInv'
<1> DEFINE plan == Plan(op, ex)
<1>1. /\ CallOk(listing, DOMAIN cache, call[t], begun[t]) /\ IsFiniteSet(listing) /\ CacheOk
      /\ DOMAIN call = Task /\ DOMAIN begun = Task
  BY DEF IInv
<1>2. plan \in Seq(Exchange) /\ plan # <<>>
  BY PlanIsAPlan
<1>3. /\ UNCHANGED <<listing, cache>> /\ DOMAIN call' = Task /\ DOMAIN begun' = Task
      /\ \A u \in Task \ {t} : call'[u] = call[u] /\ begun'[u] = begun[u]
      /\ call'[t] = [IdleCall EXCEPT !.at = "look", !.op = op, !.query = query, !.todo = plan]
      /\ begun'[t] = [begun[t] EXCEPT
           !.plan = plan,
           !.listed = {i \in DOMAIN plan : Matching(query, plan[i]) # {}},
           !.cached = {i \in DOMAIN plan : contract_cache_key(query, plan[i]) \in DOMAIN cache}]
  BY <1>1 DEF Start
<1> HIDE DEF plan
<1>4. /\ call'[t].at = "look" /\ call'[t].query = query /\ call'[t].todo = plan
      /\ call'[t].hand = Empty /\ DOMAIN call'[t] = CallFields
  BY <1>3 DEF IdleCall, CallFields
<1>5. /\ DOMAIN begun'[t] = BegunFields /\ begun'[t].plan = plan
      /\ begun'[t].listed = {i \in DOMAIN plan : Matching(query, plan[i]) # {}}
      /\ begun'[t].cached = {i \in DOMAIN plan : contract_cache_key(query, plan[i]) \in DOMAIN cache}
  BY <1>1, <1>3 DEF CallOk, BegunFields
<1>6. Len(plan) \in Nat /\ DOMAIN plan = 1 .. Len(plan)
  BY <1>2, LenProperties
<1>7. Position(call'[t], begun'[t]) = 1
  <2>1. \A m \in Nat : m - m + 1 = 1
    OBVIOUS
  <2> QED BY <1>4, <1>5, <1>6, <2>1 DEF Position
<1>8. OnPlan(call'[t], begun'[t])
  <2>1. \A m \in Nat : m <= m /\ \A i \in 1 .. m : m - m + i = i
    OBVIOUS
  <2> QED BY <1>2, <1>4, <1>5, <1>6, <2>1 DEF OnPlan
<1>9. Ahead(call'[t], begun'[t])
  BY <1>4, <1>5, <1>6, <1>7 DEF Ahead
<1>10. Known(listing, DOMAIN cache, call'[t], begun'[t])
  BY <1>4, <1>5 DEF Known, Matching, Match, contract_cache_key
<1>11. CallOk(listing, DOMAIN cache, call'[t], begun'[t])
  BY <1>4, <1>5, <1>8, <1>9, <1>10 DEF CallOk, FoundRightly, MissedRightly
<1> QED BY <1>1, <1>3, <1>11, OneCall DEF CacheOk

\* There is nothing to be wrong at the start, and every step keeps IInv.
LEMMA Inductive == (Init => IInv) /\ (IInv /\ [Next]_vars => IInv')
<1>1. ASSUME Init PROVE IInv
  <2>1. IsFiniteSet(listing) /\ DOMAIN call = Task /\ DOMAIN begun = Task
    BY <1>1, FS_EmptySet DEF Init
  <2>2. CacheOk
    BY <1>1 DEF Init, CacheOk
  <2>3. ASSUME NEW t \in Task PROVE CallOk(listing, DOMAIN cache, call[t], begun[t])
    <3>1. /\ call[t].at = "idle" /\ DOMAIN call[t] = CallFields
          /\ DOMAIN begun[t] = BegunFields
      BY <1>1 DEF Init, IdleCall, CallFields, BegunFields
    <3> QED BY <3>1 DEF CallOk, Searching, FoundRightly, MissedRightly
  <2> QED BY <2>1, <2>2, <2>3 DEF IInv
<1>2. ASSUME IInv, [Next]_vars PROVE IInv'
  <2>1. CASE Lists
    <3>1. PICK entry : listing' = listing \union {entry}
      BY <2>1 DEF Lists
    <3>2. /\ IsFiniteSet(listing') /\ listing \subseteq listing' /\ UNCHANGED <<cache, call, begun>>
      BY <1>2, <2>1, <3>1, FS_AddElement DEF Lists, IInv
    <3>3. CacheOk'
      BY <1>2, <3>2, DetailsStay DEF CacheOk, IInv
    <3>4. \A t \in Task : CallOk(listing', DOMAIN cache, call[t], begun[t])
      BY <1>2, <3>2, CallStaysOk DEF IInv
    <3> QED BY <1>2, <3>2, <3>3, <3>4 DEF IInv
  <2>2. CASE UNCHANGED vars
    BY <1>2, <2>2 DEF vars, IInv, CacheOk
  <2> QED
    BY <1>2, <2>1, <2>2, StepKeeps, StartKeeps DEF Next
<1> QED BY <1>1, <1>2

-----------------------------------------------------------------------------
\* A lookup is answered with details of what it asked for, on the exchange it
\* asked, whoever put them into the cache and however many lookups run.
THEOREM AnswersMatch == Spec => []AnswerIsTheQuerys
<1>1. IInv => AnswerIsTheQuerys
  <2> SUFFICES ASSUME IInv, NEW t \in Task, Answered(t)
               PROVE  \A i \in DOMAIN call[t].hand :
                        call[t].hand[i] \in Matching(call[t].query, begun[t].plan[begun[t].asked])
    BY DEF AnswerIsTheQuerys
  <2>1. Details(listing, call[t].hand, call[t].query, begun[t].plan[begun[t].asked])
    BY DEF IInv, CallOk, FoundRightly, Answered
  <2> QED BY <2>1 DEF Details, Match, Matching
<1> QED
  BY <1>1, Inductive, PTL DEF Spec

\* The fallback finds what was listed when it began, on the first exchange that
\* had it, unless there was an error; what was cached then it finds in any case.
THEOREM FirstListed == Spec => []FirstListedWins
<1>1. IInv => FirstListedWins
  <2> SUFFICES ASSUME IInv, NEW t \in Task
               PROVE  /\ ~begun[t].erred /\ begun[t].listed # {} =>
                           /\ ~NotFound(t)
                           /\ Answered(t) => \A i \in begun[t].listed : begun[t].asked <= i
                      /\ NotFound(t) => begun[t].cached = {}
    BY DEF FirstListedWins
  <2>1. /\ FoundRightly(listing, call[t], begun[t])
        /\ MissedRightly(call[t], begun[t])
    BY DEF IInv, CallOk
  <2> QED BY <2>1 DEF FoundRightly, MissedRightly, Answered, NotFound
<1> QED
  BY <1>1, Inductive, PTL DEF Spec

-----------------------------------------------------------------------------
(* StrikesTrade.  That InOrder puts a set in order, whatever its size, is    *)
(* shown by induction on the size, which is least where it first fails.      *)

\* A set of naturals that is not empty has a least element.
LEMMA LeastElement ==
  ASSUME NEW T, T \subseteq Nat, T # {}
  PROVE  \E x \in T : \A y \in T : x <= y
<1> DEFINE R == OpToRel(<, Nat)
<1>1. IsWellFoundedOn(R, Nat)
  BY NatLessThanWellFounded
<1>2. \A a, b \in Nat : <<a, b>> \in R <=> a < b
  BY DEF OpToRel
<1> HIDE DEF R
<1>3. PICK x \in T : \A y \in T : ~(<<y, x>> \in R)
  BY <1>1, WFMin
<1>4. \A y \in T : ~(y < x)
  BY <1>2, <1>3, Zenon
<1>5. \A y \in T : x <= y
  BY <1>4
<1> QED
  BY <1>5

\* A set that has zero and, with each number, the next, has them all.
LEMMA Induction ==
  ASSUME NEW S, 0 \in S, \A n \in Nat : n \in S => n + 1 \in S
  PROVE  \A n \in Nat : n \in S
<1> SUFFICES ASSUME Nat \ S # {} PROVE FALSE
  OBVIOUS
<1>1. PICK x \in Nat \ S : \A y \in Nat \ S : x <= y
  BY LeastElement
<1>2. x - 1 \in Nat /\ ~(x <= x - 1)
  BY <1>1
<1>3. x - 1 \in S
  BY <1>1, <1>2
<1> QED
  BY <1>1, <1>2, <1>3

\* Precedes orders S strictly: of two elements one comes first.
Orders(Precedes, S) ==
  /\ \A x, y \in S : x # y => <<x, y>> \in Precedes \/ <<y, x>> \in Precedes
  /\ \A x, y, z \in S : <<x, y>> \in Precedes /\ <<y, z>> \in Precedes => <<x, z>> \in Precedes

\* A finite set that is ordered has a last element.
LEMMA LastElement ==
  ASSUME NEW S, NEW Precedes, Orders(Precedes, S)
  PROVE  \A n \in Nat : \A T \in SUBSET S :
           IsFiniteSet(T) /\ Cardinality(T) = n + 1
             => \E x \in T : \A y \in T \ {x} : <<y, x>> \in Precedes
<1> DEFINE HasLast(T) == \E x \in T : \A y \in T \ {x} : <<y, x>> \in Precedes
           Sizes == {n \in Nat : \A T \in SUBSET S :
                       IsFiniteSet(T) /\ Cardinality(T) = n + 1 => HasLast(T)}
<1>1. 0 \in Sizes
  <2> SUFFICES ASSUME NEW T \in SUBSET S, IsFiniteSet(T), Cardinality(T) = 1
               PROVE  HasLast(T)
    OBVIOUS
  <2>1. PICK x : T = {x}
    BY FS_Singleton
  <2> QED
    BY <2>1
<1>2. ASSUME NEW n \in Nat, n \in Sizes PROVE n + 1 \in Sizes
  <2> SUFFICES ASSUME NEW T \in SUBSET S, IsFiniteSet(T), Cardinality(T) = n + 2
               PROVE  HasLast(T)
    OBVIOUS
  <2>1. PICK x \in T : TRUE
    <3>1. T # {}
      BY FS_EmptySet
    <3> QED
      BY <3>1
  <2>2. IsFiniteSet(T \ {x}) /\ Cardinality(T \ {x}) = n + 1
    BY <2>1, FS_RemoveElement
  <2>3. PICK m \in T \ {x} : \A y \in (T \ {x}) \ {m} : <<y, m>> \in Precedes
    BY <1>2, <2>2
  <2>4. CASE <<x, m>> \in Precedes
    BY <2>3, <2>4
  <2>5. CASE <<m, x>> \in Precedes
    <3>1. \A y \in T \ {x} : <<y, x>> \in Precedes
      BY <2>3, <2>5 DEF Orders
    <3> QED
      BY <3>1
  <2> QED
    BY <2>3, <2>4, <2>5 DEF Orders
<1> HIDE DEF HasLast
<1>3. \A n \in Nat : n \in Sizes
  <2> HIDE DEF Sizes
  <2> QED
    BY <1>1, <1>2, Induction
<1> QED
  BY <1>3 DEF HasLast

\* A finite set that is ordered can be put in a row, whatever its size.
LEMMA RowExists ==
  ASSUME NEW S, NEW Precedes, Orders(Precedes, S), IsFiniteSet(S)
  PROVE  \E row \in [1 .. Cardinality(S) -> S] : InRow(row, S, Precedes)
<1> DEFINE HasRow(n, T) == \E row \in [1 .. n -> T] : InRow(row, T, Precedes)
           Sizes == {n \in Nat : \A T \in SUBSET S :
                       IsFiniteSet(T) /\ Cardinality(T) = n => HasRow(n, T)}
<1>1. 0 \in Sizes
  <2> SUFFICES ASSUME NEW T \in SUBSET S, IsFiniteSet(T), Cardinality(T) = 0
               PROVE  HasRow(0, T)
    OBVIOUS
  <2>1. T = {}
    BY FS_EmptySet
  <2>2. [i \in 1 .. 0 |-> 0] \in [1 .. 0 -> T]
    OBVIOUS
  <2> QED
    BY <2>1, <2>2 DEF InRow
<1>2. ASSUME NEW n \in Nat, n \in Sizes PROVE n + 1 \in Sizes
  <2> SUFFICES ASSUME NEW T \in SUBSET S, IsFiniteSet(T), Cardinality(T) = n + 1
               PROVE  HasRow(n + 1, T)
    OBVIOUS
  <2>1. PICK x \in T : \A y \in T \ {x} : <<y, x>> \in Precedes
    BY LastElement
  <2>2. IsFiniteSet(T \ {x}) /\ Cardinality(T \ {x}) = n
    <3>1. Cardinality(T \ {x}) = Cardinality(T) - 1
      BY <2>1, FS_RemoveElement
    <3> QED
      BY <3>1, FS_RemoveElement
  <2>3. PICK front \in [1 .. n -> T \ {x}] : InRow(front, T \ {x}, Precedes)
    BY <1>2, <2>2
  <2> DEFINE row == [i \in 1 .. n + 1 |-> IF i <= n THEN front[i] ELSE x]
  <2>4. row \in [1 .. n + 1 -> T]
    BY <2>1, <2>3
  <2>5. \A y \in T : \E i \in 1 .. n + 1 : row[i] = y
    <3>1. row[n + 1] = x /\ n + 1 \in 1 .. n + 1
      OBVIOUS
    <3>2. \A i \in 1 .. n : row[i] = front[i] /\ i \in 1 .. n + 1
      OBVIOUS
    <3> HIDE DEF row
    <3> QED
      BY <2>3, <3>1, <3>2 DEF InRow
  <2>6. ASSUME NEW i \in 1 .. n + 1, NEW j \in 1 .. n + 1, i < j
        PROVE  <<row[i], row[j]>> \in Precedes
    <3>1. i \in 1 .. n /\ row[i] = front[i]
      BY <2>6
    <3>2. CASE j = n + 1
      <4>1. row[j] = x
        BY <3>2
      <4> QED
        BY <2>1, <2>3, <3>1, <4>1
    <3>3. CASE j # n + 1
      <4>1. j \in 1 .. n /\ row[j] = front[j]
        BY <3>3
      <4> QED
        BY <2>3, <2>6, <3>1, <4>1 DEF InRow
    <3> QED
      BY <3>2, <3>3
  <2>7. InRow(row, T, Precedes)
    BY <2>5, <2>6 DEF InRow
  <2> QED
    BY <2>4, <2>7
<1>3. \A n \in Nat : n \in Sizes
  <2> HIDE DEF Sizes
  <2> QED
    BY <1>1, <1>2, Induction
<1> QED
  BY <1>3, FS_CardinalityType

\* So that is what InOrder gives.
LEMMA InOrderIsARow ==
  ASSUME NEW S, NEW Precedes, Orders(Precedes, S), IsFiniteSet(S)
  PROVE  /\ InOrder(S, Precedes) \in [1 .. Cardinality(S) -> S]
         /\ InRow(InOrder(S, Precedes), S, Precedes)
BY RowExists DEF InOrder

\* The strikes of finitely many details come out positive, ascending and all.
LEMMA DistinctSorted ==
  ASSUME NEW details, IsFiniteSet(DOMAIN details),
         \A i \in DOMAIN details : details[i][1][2] \in Int
  PROVE  LET out == distinct_sorted_strikes(details)
         IN  /\ Ascending(out)
             /\ \A i \in DOMAIN out : out[i] > 0 /\ \E k \in DOMAIN details : out[i] = details[k][1][2]
             /\ \A k \in DOMAIN details : details[k][1][2] > 0
                  => \E i \in DOMAIN out : out[i] = details[k][1][2]
<1> DEFINE all     == {details[i][1][2] : i \in DOMAIN details}
           strikes == {k \in all : k > 0}
           before  == {pair \in strikes \X strikes : pair[1] < pair[2]}
           out     == InOrder(strikes, before)
<1>1. strikes \subseteq Int /\ all \subseteq Int
  OBVIOUS
<1>2. IsFiniteSet(all)
  <2> DEFINE f == [i \in DOMAIN details |-> details[i][1][2]]
  <2>1. f \in Surjection(DOMAIN details, all)
    BY DEF Surjection
  <2> QED
    BY <2>1, FS_Surjection
<1>3. IsFiniteSet(strikes)
  <2>1. strikes \in SUBSET all
    OBVIOUS
  <2> QED
    BY <1>2, <2>1, FS_Subset
<1>4. \A a, b : <<a, b>> \in before <=> a \in strikes /\ b \in strikes /\ a < b
  OBVIOUS
<1>5. \A k \in strikes : k > 0 /\ \E i \in DOMAIN details : k = details[i][1][2]
  OBVIOUS
<1>6. \A i \in DOMAIN details : details[i][1][2] > 0 => details[i][1][2] \in strikes
  OBVIOUS
<1>7. distinct_sorted_strikes(details) = out
  BY DEF distinct_sorted_strikes
<1> HIDE DEF all, strikes, before
<1>8. Orders(before, strikes)
  BY <1>1, <1>4 DEF Orders
<1>9. out \in [1 .. Cardinality(strikes) -> strikes] /\ InRow(out, strikes, before)
  BY <1>3, <1>8, InOrderIsARow
<1> HIDE DEF out
<1>10. Ascending(out)
  BY <1>4, <1>9 DEF Ascending, InRow
<1> QED
  BY <1>5, <1>6, <1>7, <1>9, <1>10 DEF InRow

\* Places ordered by what they hold and then by themselves are ordered.
LEMMA PlacesOrdered ==
  ASSUME NEW n \in Nat, NEW v \in [1 .. n -> Int], NEW before,
         \A a, b \in 1 .. n : <<a, b>> \in before <=> v[a] < v[b] \/ (v[a] = v[b] /\ a < b)
  PROVE  Orders(before, 1 .. n)
<1>1. \A x, y \in 1 .. n : x # y => <<x, y>> \in before \/ <<y, x>> \in before
  <2> SUFFICES ASSUME NEW x \in 1 .. n, NEW y \in 1 .. n, x # y
               PROVE  \/ v[x] < v[y] \/ (v[x] = v[y] /\ x < y)
                      \/ v[y] < v[x] \/ (v[y] = v[x] /\ y < x)
    OBVIOUS
  <2>1. v[x] \in Int /\ v[y] \in Int
    OBVIOUS
  <2> QED
    BY <2>1
<1>2. ASSUME NEW x \in 1 .. n, NEW y \in 1 .. n, NEW z \in 1 .. n,
             <<x, y>> \in before, <<y, z>> \in before
      PROVE  <<x, z>> \in before
  <2>1. v[x] \in Int /\ v[y] \in Int /\ v[z] \in Int
    OBVIOUS
  <2>2. /\ v[x] < v[y] \/ (v[x] = v[y] /\ x < y)
        /\ v[y] < v[z] \/ (v[y] = v[z] /\ y < z)
    BY <1>2
  <2>3. v[x] < v[z] \/ (v[x] = v[z] /\ x < z)
    BY <2>1, <2>2
  <2> QED
    BY <2>3
<1> QED
  BY <1>1, <1>2 DEF Orders

\* The strikes of a chain come out in order, each as often as it was sent.
LEMMA ChainSorted ==
  ASSUME NEW strikes \in Seq(Int)
  PROVE  LET p   == PlacesByStrike(strikes)
             out == [i \in DOMAIN strikes |-> strikes[p[i]]]
         IN  /\ p \in Bijection(DOMAIN out, DOMAIN strikes)
             /\ \A i, j \in DOMAIN out : i < j => out[i] <= out[j]
<1> DEFINE places == DOMAIN strikes
           before == {pair \in places \X places :
                        \/ strikes[pair[1]] < strikes[pair[2]]
                        \/ strikes[pair[1]] = strikes[pair[2]] /\ pair[1] < pair[2]}
           p == PlacesByStrike(strikes)
           n == Len(strikes)
<1>1. n \in Nat /\ strikes \in [1 .. n -> Int] /\ places = 1 .. n
  OBVIOUS
<1>2. IsFiniteSet(1 .. n) /\ Cardinality(1 .. n) = n
  <2>1. 1 \in Int /\ n \in Int
    BY <1>1
  <2>2. IsFiniteSet(1 .. n) /\ Cardinality(1 .. n) = IF 1 > n THEN 0 ELSE n - 1 + 1
    BY <2>1, FS_Interval, Zenon
  <2>3. (IF 1 > n THEN 0 ELSE n - 1 + 1) = n
    BY <1>1
  <2> QED
    BY <2>2, <2>3
<1>3. \A a, b \in places :
        <<a, b>> \in before <=> strikes[a] < strikes[b] \/ (strikes[a] = strikes[b] /\ a < b)
  <2> HIDE DEF places
  <2> QED
    OBVIOUS
<1>4. p = InOrder(places, before)
  BY DEF PlacesByStrike
<1> HIDE DEF places, before, n, p
<1>5. Orders(before, places)
  BY <1>1, <1>3, PlacesOrdered
<1>6. p \in [places -> places] /\ InRow(p, places, before)
  <2>1. IsFiniteSet(places) /\ Cardinality(places) = n
    BY <1>1, <1>2, Zenon
  <2>2. p \in [1 .. Cardinality(places) -> places] /\ InRow(p, places, before)
    BY <1>4, <1>5, <2>1, InOrderIsARow
  <2> QED
    BY <1>1, <2>1, <2>2
<1>7. \A i, j \in places : i < j =>
        strikes[p[i]] < strikes[p[j]] \/ (strikes[p[i]] = strikes[p[j]] /\ p[i] < p[j])
  BY <1>3, <1>6 DEF InRow
<1>8. \A i \in places : i \in Nat /\ p[i] \in places /\ p[i] \in Nat /\ strikes[p[i]] \in Int
  BY <1>1, <1>6
<1>9. \A i, j \in places : p[i] = p[j] => i = j
  <2> SUFFICES ASSUME NEW i \in places, NEW j \in places, i < j PROVE p[i] # p[j]
    BY <1>8
  <2> QED
    BY <1>7, <1>8
<1>10. \A x \in places : \E i \in places : p[i] = x
  BY <1>6 DEF InRow
<1>11. p \in Bijection(places, places)
  BY <1>6, <1>9, <1>10 DEF Bijection, Injection, Surjection, IsInjective
<1>12. \A i, j \in places : i < j => strikes[p[i]] <= strikes[p[j]]
  <2> SUFFICES ASSUME NEW i \in places, NEW j \in places, i < j
               PROVE  strikes[p[i]] <= strikes[p[j]]
    OBVIOUS
  <2>1. strikes[p[i]] < strikes[p[j]] \/ strikes[p[i]] = strikes[p[j]]
    BY <1>7
  <2>2. strikes[p[i]] \in Int /\ strikes[p[j]] \in Int
    BY <1>8
  <2> QED
    BY ONLY <2>1, <2>2
<1> QED
  BY <1>11, <1>12 DEF places, p

-----------------------------------------------------------------------------
\* A partial contract is a prefix of the options of its expiry only.
LEMMA OptionOfExpiry ==
  ASSUME NEW e, NEW c \in Contract, IsPrefix(<<e>>, c)
  PROVE  c[1] = e /\ c[2] \in Int
<1>1. Len(<<e>>) = 1 /\ Len(<<e>>) <= Len(c)
  BY DEF IsPrefix
<1>2. c # Stock
  BY <1>1 DEF Stock
<1>3. c \in Int \X Int \X {"C", "P"}
  BY <1>2, OptionAssumption DEF Contract
<1>4. PICK a \in Int, k \in Int, r \in {"C", "P"} : c = <<a, k, r>>
  BY <1>3
<1>5. SubSeq(<<e>>, 1, 1) = SubSeq(<<a, k, r>>, 1, 1)
  BY <1>1, <1>4 DEF IsPrefix
<1>6. SubSeq(<<e>>, 1, 1)[1] = e /\ SubSeq(<<a, k, r>>, 1, 1)[1] = a
  OBVIOUS
<1> QED
  BY <1>4, <1>5, <1>6

\* What a call is after, and what it answered with.
AnswerOk(cl) ==
  /\ cl.op = "strikes" => \E e \in Expiry : cl.query = <<e>>
  /\ cl.at = "request" => cl.op = "chain"
  /\ cl.at = "done" => cl.hand # Empty
  /\ cl.at = "done" /\ cl.op = "strikes" => cl.answer.strikes = distinct_sorted_strikes(cl.hand)
  /\ cl.at = "done" /\ cl.op = "chain" =>
       \E chain \in Chain : cl.answer = from_ib(chain) /\ cl.answer # NoAnswer

StrikesInv ==
  /\ IInv
  /\ listing \subseteq Contract \X Exchange
  /\ \A t \in Task : AnswerOk(call[t])

\* A search that goes on, or finds something, stays after the same thing.
LEMMA SearchAnswerOk ==
  ASSUME NEW cl, DOMAIN cl = CallFields, Searching(cl), AnswerOk(cl), NEW err, NEW details
  PROVE  /\ AnswerOk(Continue(cl, err))
         /\ details # Empty => AnswerOk(Resolved(cl, details))
<1>1. AnswerOk(Continue(cl, err))
  <2>1. /\ Continue(cl, err).at \in {"look", "failed"}
        /\ Continue(cl, err).op = cl.op /\ Continue(cl, err).query = cl.query
    BY DEF Continue, CallFields
  <2> QED
    BY <2>1 DEF AnswerOk
<1>2. ASSUME details # Empty PROVE AnswerOk(Resolved(cl, details))
  <2> DEFINE next == Resolved(cl, details)
  <2>1. /\ next.op = cl.op /\ next.query = cl.query /\ next.hand = details
        /\ cl.op = "chain" => next.at = "request"
        /\ cl.op # "chain" => next.at = "done" /\ next.answer = Answer(cl.op, details)
    BY DEF Resolved, CallFields
  <2>2. cl.op = "strikes" => Answer(cl.op, details).strikes = distinct_sorted_strikes(details)
    BY DEF Answer, NoAnswer
  <2> QED
    BY <1>2, <2>1, <2>2 DEF AnswerOk
<1> QED
  BY <1>1, <1>2

\* Every step of a call keeps it.
LEMMA StepAnswers ==
  ASSUME StrikesInv, NEW t \in Task, Step(t)
  PROVE  \A u \in Task : AnswerOk(call'[u])
<1> DEFINE cl == call[t]
<1>1. /\ DOMAIN call = Task /\ DOMAIN cl = CallFields /\ AnswerOk(cl)
      /\ \A u \in Task : AnswerOk(call[u])
  BY DEF StrikesInv, IInv, CallOk
\* It is enough to look at the call that steps.
<1>2. ASSUME NEW next, AnswerOk(next), call' = [call EXCEPT ![t] = next]
      PROVE  \A u \in Task : AnswerOk(call'[u])
  BY <1>1, <1>2
<1>3. ASSUME NEW details, Settle(t, details), Searching(cl)
      PROVE  \A u \in Task : AnswerOk(call'[u])
  <2>1. /\ \A u \in Task \ {t} : call'[u] = call[u]
        /\ details = Empty => call'[t] = Continue(cl, "ContractResolution")
        /\ details # Empty => call'[t] = Resolved(cl, details)
    BY <1>1, <1>3 DEF Settle
  <2>2. AnswerOk(call'[t])
    BY <1>1, <1>3, <2>1, SearchAnswerOk
  <2> QED
    BY <1>1, <2>1, <2>2
<1>4. CASE LookHits(t)
  BY <1>3, <1>4 DEF LookHits, Searching
<1>5. CASE LookMisses(t)
  <2>1. call' = [call EXCEPT ![t] = [cl EXCEPT !.at = "fetch"]]
    BY <1>5 DEF LookMisses
  <2>2. AnswerOk([cl EXCEPT !.at = "fetch"])
    BY <1>1 DEF AnswerOk, CallFields
  <2> QED
    BY <1>2, <2>1, <2>2
<1>6. CASE FetchReturns(t)
  <2>1. PICK details \in SetToSeqs(Matching(cl.query, Asked(t))) :
          \/ call' = [call EXCEPT ![t].at = "insert", ![t].hand = details]
          \/ Settle(t, details)
    BY <1>6 DEF FetchReturns
  <2>2. Searching(cl)
    BY <1>6 DEF FetchReturns, Searching
  <2>3. CASE Settle(t, details)
    BY <1>3, <2>2, <2>3
  <2>4. CASE call' = [call EXCEPT ![t].at = "insert", ![t].hand = details]
    <3> DEFINE next == [cl EXCEPT !.at = "insert", !.hand = details]
    <3>1. call'[t] = next /\ \A u \in Task \ {t} : call'[u] = call[u]
      BY <1>1, <2>4
    <3>2. AnswerOk(next)
      BY <1>1 DEF AnswerOk, CallFields
    <3> QED
      BY <1>1, <3>1, <3>2
  <2> QED
    BY <2>1, <2>3, <2>4
<1>7. CASE Insert(t)
  BY <1>3, <1>7 DEF Insert, Searching
<1>8. ASSUME NEW e \in LookupErrors, FetchFails(t, e)
      PROVE  \A u \in Task : AnswerOk(call'[u])
  <2>1. call' = [call EXCEPT ![t] = Continue(cl, FromIbapi(e).kind)] /\ Searching(cl)
    BY <1>8 DEF FetchFails, Searching
  <2> QED
    BY <1>1, <1>2, <2>1, SearchAnswerOk
<1>9. CASE ChainArrives(t)
  <2>1. cl.at = "request" /\ cl.hand # Empty
    BY <1>9 DEF ChainArrives, StrikesInv, IInv, CallOk
  <2>2. PICK chain \in Chain :
          call' = [call EXCEPT ![t] =
            IF from_ib(chain) = NoAnswer
            THEN [cl EXCEPT !.at = "failed", !.err = "ContractResolution"]
            ELSE [cl EXCEPT !.at = "done", !.answer = from_ib(chain)]]
    BY <1>9 DEF ChainArrives
  <2>3. CASE from_ib(chain) = NoAnswer
    <3> DEFINE next == [cl EXCEPT !.at = "failed", !.err = "ContractResolution"]
    <3>1. AnswerOk(next)
      BY <1>1 DEF AnswerOk, CallFields
    <3> QED
      BY <1>2, <2>2, <2>3, <3>1
  <2>4. CASE from_ib(chain) # NoAnswer
    <3> DEFINE next == [cl EXCEPT !.at = "done", !.answer = from_ib(chain)]
    <3>1. /\ next.at = "done" /\ next.op = "chain" /\ next.hand # Empty
          /\ next.answer = from_ib(chain)
      BY <1>1, <2>1 DEF AnswerOk, CallFields
    <3>2. AnswerOk(next)
      BY <2>4, <3>1 DEF AnswerOk
    <3> QED
      BY <1>2, <2>2, <2>4, <3>2
  <2> QED
    BY <2>3, <2>4
<1>10. CASE ChainMissing(t)
  <2>1. /\ \A u \in Task \ {t} : call'[u] = call[u]
        /\ call'[t].op = cl.op /\ call'[t].query = cl.query
        /\ call'[t].at \in {"request", "failed"} /\ cl.at = "request"
    BY <1>1, <1>10 DEF ChainMissing, CallFields
  <2>2. AnswerOk(call'[t])
    BY <1>1, <2>1 DEF AnswerOk
  <2> QED
    BY <1>1, <2>1, <2>2
<1> QED
  BY <1>4, <1>5, <1>6, <1>7, <1>8, <1>9, <1>10 DEF Step

\* It holds at the start, and every step keeps it.
LEMMA StrikesInductive == (Init => StrikesInv) /\ (StrikesInv /\ [Next]_vars => StrikesInv')
<1>1. ASSUME Init PROVE StrikesInv
  <2>1. IInv
    BY <1>1, Inductive
  <2>2. \A t \in Task : call[t].at = "idle" /\ call[t].op = "conid"
    BY <1>1 DEF Init, IdleCall
  <2> QED
    BY <1>1, <2>1, <2>2 DEF Init, StrikesInv, AnswerOk
<1>2. ASSUME StrikesInv, [Next]_vars PROVE StrikesInv'
  <2>1. IInv'
    BY <1>2, Inductive DEF StrikesInv
  <2>2. listing' \subseteq Contract \X Exchange
    <3>1. CASE Lists
      BY <1>2, <3>1, ListableAssumption DEF Lists, StrikesInv
    <3>2. CASE UNCHANGED listing
      BY <1>2, <3>2 DEF StrikesInv
    <3>3. ASSUME NEW t \in Task, Step(t) PROVE UNCHANGED listing
      BY <3>3 DEF Step, LookHits, LookMisses, FetchReturns, Insert, ChainArrives,
                  ChainMissing, FetchFails
    <3> QED
      BY <1>2, <3>1, <3>2, <3>3 DEF Next, Start, vars
  <2>3. \A t \in Task : AnswerOk(call'[t])
    <3>1. CASE UNCHANGED call
      BY <1>2, <3>1 DEF StrikesInv
    <3>2. ASSUME NEW t \in Task, NEW op \in Op, NEW ex \in Preferred,
                 NEW query \in QueriesOf(op), Start(t, op, query, ex)
          PROVE  \A u \in Task : AnswerOk(call'[u])
      <4>1. DOMAIN call = Task /\ \A u \in Task : AnswerOk(call[u])
        BY <1>2 DEF StrikesInv, IInv
      <4>2. /\ \A u \in Task \ {t} : call'[u] = call[u]
            /\ call'[t] = [IdleCall EXCEPT !.at = "look", !.op = op, !.query = query,
                                           !.todo = Plan(op, ex)]
        BY <3>2, <4>1 DEF Start
      <4>3. call'[t].at = "look" /\ call'[t].op = op /\ call'[t].query = query
        BY <4>2 DEF IdleCall
      <4>4. op = "strikes" => \E e \in Expiry : query = <<e>>
        BY DEF QueriesOf
      <4>5. AnswerOk(call'[t])
        BY <4>3, <4>4 DEF AnswerOk
      <4> QED
        BY <4>1, <4>2, <4>5
    <3> QED
      BY <1>2, <3>1, <3>2, StepAnswers DEF Next, Lists, vars
  <2> QED
    BY <2>1, <2>2, <2>3 DEF StrikesInv
<1> QED
  BY <1>1, <1>2

\* The invariant makes the strikes of an expiry right.
LEMMA ExpiryStrikesTrade ==
  ASSUME StrikesInv, NEW t \in Task, call[t].at = "done", call[t].op = "strikes"
  PROVE  LET out  == call[t].answer.strikes
             hand == call[t].hand
         IN  /\ Ascending(out)
             /\ \A i \in DOMAIN out :
                  \E entry \in Matching(call[t].query, begun[t].plan[begun[t].asked]) :
                    /\ entry[1][1] = call[t].query[1] /\ entry[1][2] = out[i]
                    /\ out[i] > 0
             /\ \A i \in DOMAIN hand : hand[i][1][2] > 0 =>
                  \E j \in DOMAIN out : out[j] = hand[i][1][2]
<1> DEFINE hand == call[t].hand
           out  == call[t].answer.strikes
           ex   == begun[t].plan[begun[t].asked]
<1>1. out = distinct_sorted_strikes(hand) /\ hand # Empty
  BY DEF StrikesInv, AnswerOk
<1>2. PICK e \in Expiry : call[t].query = <<e>>
  BY DEF StrikesInv, AnswerOk
<1>3. Details(listing, hand, call[t].query, ex)
  BY <1>1 DEF StrikesInv, IInv, CallOk, FoundRightly
<1>4. IsFiniteSet(DOMAIN hand) /\ \A k \in DOMAIN hand : hand[k] \in Matching(call[t].query, ex)
  BY <1>3 DEF Details, Match, Matching
<1>5. \A k \in DOMAIN hand : hand[k][1][1] = call[t].query[1] /\ hand[k][1][2] \in Int
  <2> SUFFICES ASSUME NEW k \in DOMAIN hand
               PROVE  hand[k][1][1] = call[t].query[1] /\ hand[k][1][2] \in Int
    OBVIOUS
  <2>1. hand[k] \in listing /\ IsPrefix(<<e>>, hand[k][1])
    BY <1>2, <1>4 DEF Matching
  <2>2. hand[k][1] \in Contract
    BY <2>1 DEF StrikesInv
  <2> HIDE DEF hand
  <2> QED
    BY <1>2, <2>1, <2>2, OptionOfExpiry
<1> HIDE DEF hand, out, ex
<1>6. /\ Ascending(out)
      /\ \A i \in DOMAIN out : out[i] > 0 /\ \E k \in DOMAIN hand : out[i] = hand[k][1][2]
      /\ \A k \in DOMAIN hand : hand[k][1][2] > 0
           => \E i \in DOMAIN out : out[i] = hand[k][1][2]
  BY <1>1, <1>4, <1>5, DistinctSorted
<1>7. \A i \in DOMAIN out : \E entry \in Matching(call[t].query, ex) :
        entry[1][1] = call[t].query[1] /\ entry[1][2] = out[i] /\ out[i] > 0
  BY <1>4, <1>5, <1>6
<1> QED
  BY <1>6, <1>7 DEF hand, out, ex

\* It makes the strikes of a chain right.
LEMMA ChainStrikesTrade ==
  ASSUME StrikesInv, NEW t \in Task, call[t].at = "done", call[t].op = "chain"
  PROVE  LET answer == call[t].answer
         IN  /\ answer.expirations # <<>>
             /\ \A i, j \in DOMAIN answer.strikes :
                  i < j => answer.strikes[i] <= answer.strikes[j]
             /\ \E chain \in Chain :
                  \E p \in Bijection(DOMAIN answer.strikes, DOMAIN chain.strikes) :
                    \A i \in DOMAIN p : answer.strikes[i] = chain.strikes[p[i]]
<1> DEFINE answer == call[t].answer
<1>1. PICK chain \in Chain : answer = from_ib(chain) /\ answer # NoAnswer
  BY DEF StrikesInv, AnswerOk
<1> DEFINE p   == PlacesByStrike(chain.strikes)
           out == [i \in DOMAIN chain.strikes |-> chain.strikes[p[i]]]
<1>2. answer.expirations # <<>> /\ answer.strikes = out
  BY <1>1 DEF from_ib
<1>3. /\ p \in Bijection(DOMAIN out, DOMAIN chain.strikes)
      /\ \A i, j \in DOMAIN out : i < j => out[i] <= out[j]
  BY ChainAssumption, ChainSorted
<1>4. \A i \in DOMAIN p : out[i] = chain.strikes[p[i]]
  <2>1. DOMAIN p = DOMAIN chain.strikes
    BY <1>3 DEF Bijection, Injection
  <2> HIDE DEF p
  <2> QED
    BY <2>1
<1> HIDE DEF p, out, answer
<1>5. \E q \in Bijection(DOMAIN answer.strikes, DOMAIN chain.strikes) :
        \A i \in DOMAIN q : answer.strikes[i] = chain.strikes[q[i]]
  BY <1>2, <1>3, <1>4
<1> QED
  BY <1>2, <1>3, <1>5 DEF answer

\* The strikes an expiry is said to have trade on the exchange that answered, and
\* those of a chain are the gateway's, in order, whatever other calls put into the
\* cache and in whatever order the gateway answers.
THEOREM StrikesAreListed == Spec => []StrikesTrade
<1>1. StrikesInv => StrikesTrade
  BY ExpiryStrikesTrade, ChainStrikesTrade DEF StrikesTrade
<1> QED
  BY <1>1, StrikesInductive, PTL DEF Spec
=============================================================================
