--------------------------- MODULE UsageCopiesProofs ---------------------------
(***************************************************************************)
(* UsageCache implements ApiCopies: every step of the cache and of the     *)
(* calls through it, by any number of callers, is a step ApiCopies allows, *)
(* or none.                                                                *)
(***************************************************************************)
EXTENDS UsageCacheProofs

Holding == {"persist", "dropStore", "clearMemory", "clearFailed"}

(* A drop keeps the lock between its two halves, so that the half it began *)
(* with is still empty when it comes to the other.                         *)
DropInv ==
    \A c \in Caller :
        /\ pc[c] \in Holding => lock = c
        /\ pc[c] = "dropStore" => usage[call[c].key] = None
        /\ pc[c] = "clearMemory" => \A k \in SameWorkspace(c) : store[k] = None

LEMMA DropInit == Init => DropInv
BY DEF Init, DropInv, Holding

LEMMA DropStep == TypeInv /\ DropInv /\ [Next]_vars => DropInv'
<1> SUFFICES ASSUME TypeInv, DropInv, [Next]_vars PROVE DropInv' OBVIOUS
<1> USE DEF cache, Holding
<1>0. /\ usage \in [Key -> Entry \cup {None}] /\ store \in [Key -> Entry \cup {None}]
      /\ pc \in [Caller -> Location] /\ call \in [Caller -> Call \cup {None}]
      /\ lock \in Caller \cup {Free} /\ Free \notin Caller
  BY FreeAssumption DEF TypeInv, Typed
<1>a. ASSUME NEW c \in Caller, pc[c] # "idle" PROVE call[c].key \in Key BY <1>a, AtKey
\* A caller moves while it or nobody has the lock: nobody else is in a drop.
<1>b. ASSUME NEW c \in Caller, lock \in {c, Free} PROVE \A d \in Caller \ {c} : pc[d] \notin Holding
  BY <1>0, <1>b DEF DropInv
<1>c. ASSUME NEW c \in Caller, pc'[c] \notin Holding,
             \A d \in Caller \ {c} : pc'[d] = pc[d] /\ call'[d] = call[d],
             \/ UNCHANGED <<usage, store, lock>>
             \/ lock \in {c, Free}
      PROVE  DropInv'
  <2>1. CASE UNCHANGED <<usage, store, lock>> BY <1>c, <2>1 DEF DropInv, SameWorkspace
  <2>2. CASE lock \in {c, Free} BY <1>c, <2>2, <1>b DEF DropInv
  <2> QED BY <1>c, <2>1, <2>2
<1>d. ASSUME NEW c \in Caller, NEW l, pc' = [pc EXCEPT ![c] = l]
      PROVE  pc'[c] = l /\ \A d \in Caller \ {c} : pc'[d] = pc[d]
  BY <1>0, <1>d
<1>e. ASSUME NEW c \in Caller, Go(c, "fetch") \/ Go(c, "read") \/ Go(c, "evict") \/ Go(c, "drop")
             \/ Return(c) \/ (\E v, s, a : Carry(c, "set", v, s, a) \/ Carry(c, "warm", v, s, a))
      PROVE  /\ pc'[c] \notin Holding
             /\ \A d \in Caller \ {c} : pc'[d] = pc[d] /\ call'[d] = call[d]
  BY <1>e, <1>0 DEF Go, Return, Carry
<1>f. ASSUME NEW c \in Caller, Hit(c, held[c]) \/ Miss(c) \/ (\E e : Hit(c, e))
      PROVE  /\ pc'[c] \notin Holding
             /\ \A d \in Caller \ {c} : pc'[d] = pc[d] /\ call'[d] = call[d]
  <2>1. Return(c) \/ Go(c, "fetch") \/ \E v, s, a : Carry(c, "set", v, s, a)
    BY <1>f DEF Hit, Miss
  <2> QED BY <2>1, <1>e
<1>1. ASSUME NEW c \in Caller, Starts(c) PROVE DropInv'
  BY <1>1, <1>0, <1>c DEF Starts, StartCan, StartRecord, StartInvalidate, Begin
<1>2. ASSUME NEW c \in Caller, Peek(c) PROVE DropInv'
  BY <1>2, <1>c, <1>e, <1>f DEF Peek
<1>3. ASSUME NEW c \in Caller, Evict(c) PROVE DropInv' BY <1>3, <1>c, <1>e DEF Evict
<1>4. ASSUME NEW c \in Caller, ReadStore(c) PROVE DropInv'
  BY <1>4, <1>c, <1>e, <1>f DEF ReadStore
<1>5. ASSUME NEW c \in Caller, Warm(c) PROVE DropInv' BY <1>5, <1>c, <1>f DEF Warm
<1>6. ASSUME NEW c \in Caller, FetchAnswered(c) \/ FetchFailed(c) PROVE DropInv'
  BY <1>6, <1>c, <1>e DEF FetchAnswered, FetchFailed
<1>7. ASSUME NEW c \in Caller, SetUsage(c) PROVE DropInv'
  <2>1. pc'[c] = "persist" /\ lock' = c /\ lock = Free
        /\ \A d \in Caller \ {c} : pc'[d] = pc[d]
    BY <1>7, <1>0 DEF SetUsage, Go
  <2> QED BY <2>1, <1>b DEF DropInv
<1>8. ASSUME NEW c \in Caller, PersistUsage(c) PROVE DropInv'
  BY <1>8, <1>c, <1>e DEF PersistUsage, DropInv
<1>9. ASSUME NEW c \in Caller, PostApplied(c) \/ PostFailed(c) PROVE DropInv'
  BY <1>9, <1>c, <1>e DEF PostApplied, PostFailed
<1>10. ASSUME NEW c \in Caller, DropUsage(c) PROVE DropInv'
  <2>1. /\ pc'[c] = "dropStore" /\ lock' = c /\ lock = Free /\ call' = call
        /\ \A d \in Caller \ {c} : pc'[d] = pc[d]
        /\ usage'[call[c].key] = None
    BY <1>10, <1>0, <1>a DEF DropUsage, Go
  <2> QED BY <2>1, <1>b DEF DropInv
<1>11. ASSUME NEW c \in Caller, DropStored(c) PROVE DropInv'
  BY <1>11, <1>c, <1>e DEF DropStored, DropInv
<1>12. ASSUME NEW c \in Caller, ClearStored(c) PROVE DropInv'
  <2>1. /\ pc'[c] \in {"clearMemory", "clearFailed"} /\ lock' = c /\ lock = Free /\ call' = call
        /\ \A d \in Caller \ {c} : pc'[d] = pc[d]
    BY <1>12, <1>0 DEF ClearStored, Go
  <2>2. pc'[c] = "clearMemory" => \A k \in SameWorkspace(c) : store'[k] = None
    BY <1>12, <1>0 DEF ClearStored, Go, SameWorkspace
  <2>3. SameWorkspace(c)' = SameWorkspace(c) BY <2>1 DEF SameWorkspace
  <2> QED BY <2>1, <2>2, <2>3, <1>b DEF DropInv
<1>13. ASSUME NEW c \in Caller, ClearMemory(c) PROVE DropInv'
  BY <1>13, <1>c, <1>e DEF ClearMemory, DropInv
<1>14. CASE ExternalUse \/ Reset BY <1>14 DEF ExternalUse, Reset, DropInv, SameWorkspace
<1>15. CASE Tick
  <2>1. \A k \in Key : usage[k] = None => usage'[k] = None BY <1>15 DEF Tick, Aged
  <2>2. \A k \in Key : store[k] = None => store'[k] = None BY <1>15 DEF Tick, AgedInStore
  <2>3. \A c \in Caller : SameWorkspace(c)' = SameWorkspace(c) /\ SameWorkspace(c) \subseteq Key
    BY <1>15 DEF Tick, SameWorkspace
  <2> QED BY <1>15, <2>1, <2>2, <2>3, <1>a DEF Tick, DropInv
<1>16. CASE Restart BY <1>16 DEF Restart, DropInv
<1>17. CASE UNCHANGED vars BY <1>17 DEF vars, DropInv, SameWorkspace
<1> QED
  BY <1>1, <1>2, <1>3, <1>4, <1>5, <1>6, <1>7, <1>8, <1>9, <1>10, <1>11, <1>12,
     <1>13, <1>14, <1>15, <1>16, <1>17 DEF Next, Steps

-------------------------------------------------------------------------------
(* What the copies do when the entries and the callers change.  A step names *)
(* what it does to Served and InFlight, and is then a step of ApiCopies.     *)

Same == \A k \in Key : Served(k)' = Served(k) /\ InFlight(k)' = InFlight(k)

LEMMA ToStutter ==
    ASSUME UNCHANGED <<api, floor>>, Same PROVE UNCHANGED Copies!vars
BY DEF Same, Copies!vars

LEMMA ToForget ==
    ASSUME UNCHANGED <<api, floor>>,
           \A k \in Key : Served(k)' \subseteq Served(k) /\ InFlight(k)' \subseteq InFlight(k)
    PROVE  Copies!Next
BY DEF Copies!Next, Copies!Forget

LEMMA ToChange ==
    ASSUME TypeInv, NEW k \in Key, NEW v \in Nat, Counts(k, v), Same, UNCHANGED floor
    PROVE  Copies!Next
<1>1. api' = [api EXCEPT ![k] = Append(@, v)] BY DEF Counts
<1>2. api[k] \in Seq(Nat) /\ api \in [Key -> Seq(Nat)] BY DEF TypeInv, Typed
<1>3. /\ api'[k] = Append(api[k], v) /\ Len(api'[k]) = Len(api[k]) + 1
      /\ api'[k][Len(api[k]) + 1] = v
  BY <1>1, <1>2
<1>4. Copies!Change(k) BY <1>1, <1>3 DEF Copies!Change, Copies!Version, Same
<1> QED BY <1>4 DEF Copies!Next

LEMMA ToLearn ==
    ASSUME NEW k \in Key, UNCHANGED <<api, floor>>, \A j \in Key : Served(j)' = Served(j),
           \A j \in Key : InFlight(j)' =
              IF j = k
              THEN InFlight(k) \cup {[value |-> api[k][Len(api[k])], seen |-> Len(api[k]), age |-> 0]}
              ELSE InFlight(j)
    PROVE  Copies!Next
<1>1. Copies!Learn(k) BY DEF Copies!Learn, Copies!Current, Copies!Version
<1> QED BY <1>1 DEF Copies!Next

LEMMA ToLift ==
    ASSUME NEW k \in Key, NEW copy \in Served(k), UNCHANGED <<api, floor>>,
           \A j \in Key : Served(j)' = Served(j),
           \A j \in Key : InFlight(j)' =
              IF j = k THEN InFlight(k) \cup {copy} ELSE InFlight(j)
    PROVE  Copies!Next
<1>1. Copies!Lift(k) BY DEF Copies!Lift
<1> QED BY <1>1 DEF Copies!Next

LEMMA ToLand ==
    ASSUME NEW k \in Key, NEW copy \in InFlight(k), UNCHANGED <<api, floor>>,
           copy \in Served(k)', Served(k)' \subseteq Served(k) \cup {copy},
           InFlight(k)' \subseteq InFlight(k),
           \A j \in Key \ {k} : Served(j)' = Served(j) /\ InFlight(j)' = InFlight(j)
    PROVE  Copies!Next
<1> DEFINE kept == Served(k)' \cap Served(k)
           flying == InFlight(k)'
<1>1. [j \in Key |-> Served(j)]' = [[j \in Key |-> Served(j)] EXCEPT ![k] = kept \cup {copy}]
  <2>1. Served(k)' = kept \cup {copy} OBVIOUS
  <2> HIDE DEF kept
  <2> QED BY <2>1
<1>2. [j \in Key |-> InFlight(j)]' = [[j \in Key |-> InFlight(j)] EXCEPT ![k] = flying]
  <2>1. flying = InFlight(k)' OBVIOUS
  <2> HIDE DEF flying
  <2> QED BY <2>1
<1>3. kept \in SUBSET [j \in Key |-> Served(j)][k] OBVIOUS
<1>4. flying \in SUBSET [j \in Key |-> InFlight(j)][k] OBVIOUS
<1>5. copy \in [j \in Key |-> InFlight(j)][k] OBVIOUS
<1> HIDE DEF kept, flying
<1>6. Copies!Land(k) BY <1>1, <1>2, <1>3, <1>4, <1>5 DEF Copies!Land
<1> QED BY <1>6 DEF Copies!Next

LEMMA ToDrop ==
    ASSUME NEW keys \in SUBSET Key, UNCHANGED api,
           \A k \in Key : Served(k)' = IF k \in keys THEN {} ELSE Served(k),
           \A k \in Key : InFlight(k)' \subseteq InFlight(k),
           floor' = [k \in Key |-> IF k \in keys THEN Len(api[k]) ELSE floor[k]]
    PROVE  Copies!Next
<1>1. Copies!Drop(keys) BY DEF Copies!Drop, Copies!Version
<1> QED BY <1>1 DEF Copies!Next

-------------------------------------------------------------------------------
(* What a step of the cache does to the copies *)

LEMMA ServedKept ==
    ASSUME UNCHANGED <<usage, store>> PROVE \A k \in Key : Served(k)' = Served(k)
BY DEF Served, Cached, CopyOf, Live

LEMMA ServedLess ==
    ASSUME \A k \in Key : Live(usage'[k]) => usage'[k] = usage[k],
           \A k \in Key : Live(store'[k]) => store'[k] = store[k]
    PROVE  \A k \in Key : Served(k)' \subseteq Served(k)
BY DEF Served, Cached, CopyOf, Live

LEMMA FlightKept ==
    ASSUME \A d \in Caller : (held'[d] # None \/ held[d] # None) =>
              held'[d] = held[d] /\ call'[d] = call[d]
    PROVE  \A k \in Key : InFlight(k)' = InFlight(k)
BY DEF InFlight

LEMMA FlightLess ==
    ASSUME \A d \in Caller : held'[d] # None => held'[d] = held[d] /\ call'[d] = call[d]
    PROVE  \A k \in Key : InFlight(k)' \subseteq InFlight(k)
BY DEF InFlight

\* A caller whose hands were empty takes up a count.
LEMMA FlightMore ==
    ASSUME TypeInv, NEW c \in Caller, held[c] = None, NEW v \in Nat, NEW s \in Nat,
           NEW a \in 0..MaxAge, NEW l, Carry(c, l, v, s, a)
    PROVE  \A k \in Key : InFlight(k)' =
              IF k = call[c].key
              THEN InFlight(k) \cup {[value |-> v, seen |-> s, age |-> a]}
              ELSE InFlight(k)
<1> DEFINE n == [value |-> v, seen |-> s, age |-> a]
<1>1. n # None BY CountType, NoneAssumption
<1>2. held' = [held EXCEPT ![c] = n] /\ call' = call BY DEF Carry
<1>3. held \in [Caller -> Count \cup {None}] BY DEF TypeInv, Typed
<1> HIDE DEF n
<1>4. held'[c] = n /\ \A d \in Caller \ {c} : held'[d] = held[d] BY <1>2, <1>3
<1>5. \A k \in Key : InFlight(k)' = IF k = call[c].key THEN InFlight(k) \cup {n} ELSE InFlight(k)
  BY <1>1, <1>2, <1>4 DEF InFlight
<1> QED BY <1>5 DEF n

\* A caller writes the count it carries, to memory or to the store.
LEMMA FreshCopy ==
    ASSUME NEW n \in Count
    PROVE  CopyOf(Fresh(n)) = n /\ Live(Fresh(n)) /\ Fresh(n) # None
<1>1. Fresh(n) \in Entry BY FreshType
<1>2. Fresh(n) # None BY <1>1, NoneAssumption
<1> QED BY <1>2, TTLAssumption DEF CopyOf, Fresh, Count, Live

LEMMA LandedInMemory ==
    ASSUME TypeInv, NEW k \in Key, NEW n \in Count,
           usage' = [usage EXCEPT ![k] = Fresh(n)], UNCHANGED store
    PROVE  /\ n \in Served(k)' /\ Served(k)' \subseteq Served(k) \cup {n}
           /\ \A j \in Key \ {k} : Served(j)' = Served(j)
<1>1. usage'[k] = Fresh(n) /\ \A j \in Key \ {k} : usage'[j] = usage[j] BY DEF TypeInv, Typed
<1>2. CopyOf(Fresh(n)) = n /\ Live(Fresh(n)) BY FreshCopy
<1>3. Cached(k)' = {Fresh(n)} \cup {e \in {store[k]} : Live(e)} BY <1>1, <1>2 DEF Cached, Live
<1>4. Served(k)' = {CopyOf(e) : e \in Cached(k)'} BY DEF Served, CopyOf
<1>5. Served(k)' \subseteq Served(k) \cup {n} BY <1>2, <1>3, <1>4 DEF Served, Cached
<1>6. n \in Served(k)' BY <1>2, <1>3, <1>4
<1>7. \A j \in Key \ {k} : Served(j)' = Served(j) BY <1>1 DEF Served, Cached, Live, CopyOf
<1> QED BY <1>5, <1>6, <1>7

LEMMA LandedInStore ==
    ASSUME TypeInv, NEW k \in Key, NEW n \in Count,
           store' = [store EXCEPT ![k] = Fresh(n)], UNCHANGED usage
    PROVE  /\ n \in Served(k)' /\ Served(k)' \subseteq Served(k) \cup {n}
           /\ \A j \in Key \ {k} : Served(j)' = Served(j)
<1>1. store'[k] = Fresh(n) /\ \A j \in Key \ {k} : store'[j] = store[j] BY DEF TypeInv, Typed
<1>2. CopyOf(Fresh(n)) = n /\ Live(Fresh(n)) BY FreshCopy
<1>3. Cached(k)' = {Fresh(n)} \cup {e \in {usage[k]} : Live(e)} BY <1>1, <1>2 DEF Cached, Live
<1>4. Served(k)' = {CopyOf(e) : e \in Cached(k)'} BY DEF Served, CopyOf
<1>5. Served(k)' \subseteq Served(k) \cup {n} BY <1>2, <1>3, <1>4 DEF Served, Cached
<1>6. n \in Served(k)' BY <1>2, <1>3, <1>4
<1>7. \A j \in Key \ {k} : Served(j)' = Served(j) BY <1>1 DEF Served, Cached, Live, CopyOf
<1> QED BY <1>5, <1>6, <1>7

-------------------------------------------------------------------------------
(* The clock *)

\* A copy that is still served one tick later was young enough to be.
LEMMA AgedCopy ==
    ASSUME NEW e \in Entry \cup {None}, Live(Aged(e)),
           Prompt => e.age + e.left <= 2 * TTL
    PROVE  /\ Live(e)
           /\ Prompt => CopyOf(e).age < 2 * TTL
           /\ CopyOf(Aged(e)) =
                [CopyOf(e) EXCEPT !.age = IF @ < IF Prompt THEN 2 * TTL ELSE MaxAge
                                          THEN @ + 1 ELSE @]
<1>1. Live(e) BY AgedAge
<1>2. e # None /\ e \in Entry BY <1>1 DEF Live
<1>3. e.age \in Nat /\ e.left \in Int /\ e.left - 1 >= 0
  BY <1>2, TTLAssumption DEF Entry, MaxAge, Live, Aged
<1>4. Prompt => e.age < 2 * TTL BY <1>3, TTLAssumption
<1>5. Older(e.age) = IF e.age < IF Prompt THEN 2 * TTL ELSE MaxAge THEN e.age + 1 ELSE e.age
  BY <1>3, <1>4, TTLAssumption, SwitchAssumption DEF Older, MaxAge
<1>6. CopyOf(Aged(e)) = [CopyOf(e) EXCEPT !.age = Older(@)]
  BY <1>2 DEF CopyOf, Aged, Entry
<1>7. CopyOf(e).age = e.age BY DEF CopyOf
<1>8. [CopyOf(e) EXCEPT !.age = Older(@)] =
        [CopyOf(e) EXCEPT !.age = IF @ < IF Prompt THEN 2 * TTL ELSE MaxAge THEN @ + 1 ELSE @]
  BY <1>5, <1>7
<1> QED BY <1>1, <1>4, <1>6, <1>7, <1>8

LEMMA ToAge ==
    ASSUME TypeInv, OnlyCanReads, AgeInv, Tick PROVE Copies!Next
<1> DEFINE bound == IF Prompt THEN 2 * TTL ELSE MaxAge
           grow(n) == [n EXCEPT !.age = IF @ < bound THEN @ + 1 ELSE @]
<1>0. /\ usage \in [Key -> Entry \cup {None}] /\ store \in [Key -> Entry \cup {None}]
      /\ UNCHANGED <<api, floor, pc, call>>
  BY DEF Tick, TypeInv, Typed
<1>1. \A k \in Key : Served(k)' \subseteq Copies!Aged(Served(k))
  <2> SUFFICES ASSUME NEW k \in Key, NEW copy \in Served(k)'
               PROVE  copy \in Copies!Aged(Served(k))
    OBVIOUS
  <2>a. PICK e0 : e0 \in {usage[k], store[k]} /\ Live(Aged(e0)) /\ copy = CopyOf(Aged(e0))
    <3>1. usage'[k] = Aged(usage[k]) BY DEF Tick
    <3>2. store'[k] = AgedInStore(store[k]) BY DEF Tick
    <3>3. Live(store'[k]) => store'[k] = Aged(store[k]) BY <3>2 DEF AgedInStore, Live
    <3>4. PICK e \in {usage'[k], store'[k]} : Live(e) /\ copy = CopyOf(e)
      BY DEF Served, Cached, Live, CopyOf
    <3>5. CASE e = usage'[k] BY <3>1, <3>4, <3>5
    <3>6. CASE e = store'[k] BY <3>3, <3>4, <3>6
    <3> QED BY <3>4, <3>5, <3>6
  <2> DEFINE e == Aged(e0)
  <2>1. e0 \in Entry \cup {None} BY <1>0, <2>a
  <2>2. Live(e0) BY <2>1, <2>a, AgedAge
  <2>3. Prompt => e0.age + e0.left <= 2 * TTL
    <3>1. e0.age \in Nat /\ e0.left \in Nat BY <2>1, <2>2, TTLAssumption DEF Live, Entry, MaxAge
    <3>2. Prompt => e0.age + e0.left <= 2 * TTL \/ e0.age + e0.left <= TTL
      BY <2>a, <2>2 DEF AgeInv
    <3> QED BY <3>1, <3>2, TTLAssumption
  <2>4. /\ Prompt => CopyOf(e0).age < 2 * TTL
        /\ CopyOf(e) = grow(CopyOf(e0))
    BY <2>1, <2>3, <2>a, AgedCopy
  <2>5. CopyOf(e0) \in Served(k) BY <2>a, <2>2 DEF Served, Cached
  <2>6. Prompt => CopyOf(e0).age < bound BY <2>4
  <2> HIDE DEF CopyOf, Served
  <2>7. copy = grow(CopyOf(e0)) BY <2>a, <2>4
  <2> QED BY <2>5, <2>6, <2>7 DEF Copies!Aged
<1>2. \A k \in Key : InFlight(k)' \subseteq Copies!Aged(InFlight(k))
  <2>1. CASE Prompt
    <3>1. \A c \in Caller : held[c] = None
      BY <2>1 DEF Tick, OnlyCanReads, Waiting
    <3>2. \A c \in Caller : held'[c] = None BY <3>1 DEF Tick
    <3> QED BY <3>2 DEF InFlight
  <2>2. CASE ~Prompt
    <3> SUFFICES ASSUME NEW k \in Key, NEW copy \in InFlight(k)'
                 PROVE  copy \in Copies!Aged(InFlight(k))
      OBVIOUS
    <3>0. PICK c \in Caller : held'[c] # None /\ call[c].key = k /\ copy = held'[c]
      BY <1>0 DEF InFlight
    <3>1. held[c] # None /\ held'[c] = [held[c] EXCEPT !.age = Older(@)] BY <3>0 DEF Tick
    <3>2. held[c] \in InFlight(k) BY <3>0, <3>1 DEF InFlight
    <3>3. copy = grow(held[c]) BY <2>2, <3>0, <3>1 DEF Older
    <3> HIDE DEF InFlight
    <3> QED BY <2>2, <3>2, <3>3 DEF Copies!Aged
  <2> QED BY <2>1, <2>2
<1>3. Copies!Age BY <1>0, <1>1, <1>2 DEF Copies!Age
<1> QED BY <1>3 DEF Copies!Next

-------------------------------------------------------------------------------
(* Every step of the cache is one of the copies, or none *)

CopiesInv == TypeInv /\ OnlyCanReads /\ AgeInv /\ DropInv

LEMMA CopiesStep ==
    ASSUME HasClient PROVE CopiesInv /\ [Next]_vars => [Copies!Next]_(Copies!vars)
<1> SUFFICES ASSUME CopiesInv, [Next]_vars PROVE Copies!Next \/ UNCHANGED Copies!vars
  OBVIOUS
<1> USE DEF cache
<1>0. /\ TypeInv /\ OnlyCanReads /\ AgeInv /\ DropInv
      /\ usage \in [Key -> Entry \cup {None}] /\ store \in [Key -> Entry \cup {None}]
      /\ held \in [Caller -> Count \cup {None}] /\ pc \in [Caller -> Location]
      /\ call \in [Caller -> Call \cup {None}]
  BY DEF CopiesInv, TypeInv, Typed
<1>a. ASSUME NEW c \in Caller, pc[c] # "idle" PROVE call[c].key \in Key
  BY <1>a, <1>0, AtKey
<1>b. ASSUME NEW c \in Caller, pc[c] \in {"warm", "set", "persist"}
      PROVE  held[c] \in Count /\ held[c] # None /\ held[c] \in InFlight(call[c].key)
  BY <1>b, <1>0, NoneAssumption DEF TypeInv, Located, InFlight
<1>c. ASSUME NEW c \in Caller, pc[c] \in Reading
      PROVE  call[c].op = "can"
  BY <1>c, <1>0 DEF OnlyCanReads
\* A caller whose hands are empty moves on: no count is touched.
<1>d. ASSUME NEW c \in Caller, held[c] = None, (\E l : Go(c, l)) \/ Return(c)
      PROVE  \A k \in Key : InFlight(k)' = InFlight(k)
  <2>1. \A d \in Caller : (held'[d] # None \/ held[d] # None) =>
              held'[d] = held[d] /\ call'[d] = call[d]
    BY <1>d, <1>0 DEF Go, Return
  <2> QED BY <2>1, FlightKept
\* And one that returns lets go of the count it carries.
<1>e. ASSUME NEW c \in Caller, Return(c)
      PROVE  /\ \A k \in Key : InFlight(k)' \subseteq InFlight(k)
             /\ \A k \in Key : k # call[c].key => InFlight(k)' = InFlight(k)
  <2>1. \A d \in Caller : held'[d] # None => held'[d] = held[d] /\ call'[d] = call[d]
    BY <1>e, <1>0 DEF Return
  <2>2. \A d \in Caller \ {c} : held'[d] = held[d] /\ call'[d] = call[d]
    BY <1>e, <1>0 DEF Return
  <2>3. held'[c] = None BY <1>e, <1>0 DEF Return
  <2>4. \A k \in Key : k # call[c].key => InFlight(k)' = InFlight(k)
    BY <2>2, <2>3 DEF InFlight
  <2> QED BY <2>1, <2>4, FlightLess
\* Where nothing is carried.
<1>f. ASSUME NEW c \in Caller, pc[c] \notin {"warm", "set", "persist"} PROVE held[c] = None
  BY <1>f, <1>0 DEF OnlyCanReads
<1>g. ASSUME NEW c \in Caller, pc[c] \notin {"warm", "set", "persist"},
             (\E l : Go(c, l)) \/ Return(c), UNCHANGED <<api, usage, store, floor>>
      PROVE  UNCHANGED Copies!vars
  BY <1>d, <1>f, <1>g, ServedKept, ToStutter DEF Same
<1>1. ASSUME NEW c \in Caller, Starts(c) PROVE UNCHANGED Copies!vars
  <2>1. PICK m : /\ UNCHANGED <<api, usage, store, held, floor>> /\ pc[c] = "idle"
                 /\ call' = [call EXCEPT ![c] = m]
    BY <1>1 DEF Starts, StartCan, StartRecord, StartInvalidate, Begin
  <2>2. held[c] = None BY <2>1, <1>f
  <2>3. \A d \in Caller : (held'[d] # None \/ held[d] # None) =>
              held'[d] = held[d] /\ call'[d] = call[d]
    BY <2>1, <2>2, <1>0
  <2> QED BY <2>1, <2>3, FlightKept, ServedKept, ToStutter DEF Same
<1>2. ASSUME NEW c \in Caller, Peek(c) PROVE UNCHANGED Copies!vars
  <2>1. call[c].op = "can" BY <1>2, <1>c DEF Peek, Reading
  <2>2. Go(c, "read") \/ Go(c, "evict") \/ Return(c) BY <1>2, <2>1 DEF Peek, Hit
  <2> QED BY <1>2, <2>2, <1>g DEF Peek
<1>3. ASSUME NEW c \in Caller, Evict(c) PROVE Copies!Next
  <2>1. \A k \in Key : Live(usage'[k]) => usage'[k] = usage[k] BY <1>3, <1>0 DEF Evict, Live
  <2>2. \A k \in Key : Served(k)' \subseteq Served(k) BY <1>3, <2>1, ServedLess DEF Evict
  <2>3. \A k \in Key : InFlight(k)' = InFlight(k) BY <1>3, <1>d, <1>f DEF Evict
  <2> QED BY <1>3, <2>2, <2>3, ToForget DEF Evict
<1>4. ASSUME NEW c \in Caller, ReadStore(c) PROVE Copies!Next \/ UNCHANGED Copies!vars
  <2> DEFINE k == call[c].key
             e == store[k]
  <2>1. call[c].op = "can" /\ k \in Key /\ held[c] = None
    BY <1>4, <1>a, <1>c, <1>f DEF ReadStore, Reading
  <2>2. CASE Live(e) /\ Carry(c, "warm", e.value, e.seen, e.age)
    <3>1. e \in Entry BY <2>1, <2>2, <1>0 DEF Live
    <3>2. e.value \in Nat /\ e.seen \in Nat /\ e.age \in 0..MaxAge BY <3>1 DEF Entry
    <3>3. CopyOf(e) \in Served(k) BY <2>2 DEF Served, Cached
    <3>4. \A j \in Key : InFlight(j)' = IF j = k THEN InFlight(k) \cup {CopyOf(e)} ELSE InFlight(j)
      BY <1>0, <2>1, <2>2, <3>2, FlightMore DEF CopyOf
    <3>5. UNCHANGED <<api, usage, store, floor>> BY <1>4 DEF ReadStore
    <3>6. \A j \in Key : Served(j)' = Served(j) BY <3>5, ServedKept
    <3> HIDE DEF k, e
    <3>7. Copies!Next BY <2>1, <3>3, <3>4, <3>5, <3>6, ToLift
    <3> QED BY <3>7
  <2>3. CASE Miss(c)
    <3>1. Go(c, "fetch") BY <2>1, <2>3 DEF Miss
    <3> QED BY <1>4, <3>1, <1>g DEF ReadStore
  <2> QED BY <1>4, <2>2, <2>3 DEF ReadStore
<1>5. ASSUME NEW c \in Caller, Warm(c) PROVE Copies!Next
  <2>k. PICK k \in Key : k = call[c].key BY <1>5, <1>a DEF Warm
  <2>1. call[c].op = "can" /\ k \in Key /\ held[c] \in Count /\ held[c] \in InFlight(k)
    BY <2>k, <1>5, <1>a, <1>b, <1>c DEF Warm, Reading
  <2>2. Return(c) BY <2>k, <1>5, <2>1 DEF Warm, Hit
  <2>3. usage' = [usage EXCEPT ![k] = Fresh(held[c])] /\ UNCHANGED <<api, store, floor>>
    BY <2>k, <1>5 DEF Warm
  <2>4. /\ held[c] \in Served(k)' /\ Served(k)' \subseteq Served(k) \cup {held[c]}
        /\ \A j \in Key \ {k} : Served(j)' = Served(j)
    BY <2>1, <2>3, <1>0, LandedInMemory
  <2>5. /\ InFlight(k)' \subseteq InFlight(k)
        /\ \A j \in Key \ {k} : InFlight(j)' = InFlight(j)
    BY <2>k, <2>1, <2>2, <1>e
  <2> QED BY <2>1, <2>3, <2>4, <2>5, ToLand
<1>6. ASSUME NEW c \in Caller, FetchAnswered(c) PROVE Copies!Next
  <2> DEFINE k == call[c].key
  <2>1. k \in Key /\ held[c] = None BY <1>6, <1>a, <1>f DEF FetchAnswered
  <2>2. Version(k) \in Nat /\ api[k][Version(k)] \in Nat /\ 0 \in 0..MaxAge
    BY <2>1, <1>0, CurrentTyped, TTLAssumption DEF MaxAge
  <2>3. Carry(c, "set", api[k][Version(k)], Version(k), 0) /\ UNCHANGED <<api, usage, store, floor>>
    BY <1>6 DEF FetchAnswered
  <2>4. \A j \in Key : InFlight(j)' =
              IF j = k
              THEN InFlight(k) \cup {[value |-> api[k][Len(api[k])], seen |-> Len(api[k]), age |-> 0]}
              ELSE InFlight(j)
    BY <1>0, <2>1, <2>2, <2>3, FlightMore DEF Version
  <2>5. \A j \in Key : Served(j)' = Served(j) BY <2>3, ServedKept
  <2> HIDE DEF k
  <2> QED BY <2>1, <2>3, <2>4, <2>5, ToLearn
<1>7. ASSUME NEW c \in Caller, FetchFailed(c) PROVE UNCHANGED Copies!vars
  BY <1>7, <1>g DEF FetchFailed
<1>8. ASSUME NEW c \in Caller, SetUsage(c) PROVE Copies!Next
  <2>k. PICK k \in Key : k = call[c].key BY <1>8, <1>a DEF SetUsage
  <2>1. k \in Key /\ held[c] \in Count /\ held[c] \in InFlight(k)
    BY <2>k, <1>8, <1>a, <1>b DEF SetUsage
  <2>2. /\ usage' = [usage EXCEPT ![k] = Fresh(held[c])] /\ UNCHANGED <<api, store, floor>>
        /\ UNCHANGED <<call, held>>
    BY <2>k, <1>8 DEF SetUsage, Go
  <2>3. /\ held[c] \in Served(k)' /\ Served(k)' \subseteq Served(k) \cup {held[c]}
        /\ \A j \in Key \ {k} : Served(j)' = Served(j)
    BY <2>1, <2>2, <1>0, LandedInMemory
  <2>4. \A j \in Key : InFlight(j)' = InFlight(j) BY <2>2, FlightKept
  <2> QED BY <2>1, <2>2, <2>3, <2>4, ToLand
<1>9. ASSUME NEW c \in Caller, PersistUsage(c) PROVE Copies!Next
  <2>k. PICK k \in Key : k = call[c].key BY <1>9, <1>a DEF PersistUsage
  <2>1. k \in Key /\ held[c] \in Count /\ held[c] \in InFlight(k)
    BY <2>k, <1>9, <1>a, <1>b DEF PersistUsage
  <2>2. Return(c) /\ UNCHANGED <<api, usage, floor>> BY <2>k, <1>9 DEF PersistUsage
  <2>3. CASE store' = [store EXCEPT ![k] = Fresh(held[c])]
    <3>1. /\ held[c] \in Served(k)' /\ Served(k)' \subseteq Served(k) \cup {held[c]}
          /\ \A j \in Key \ {k} : Served(j)' = Served(j)
      BY <2>1, <2>2, <2>3, <1>0, LandedInStore
    <3>2. /\ InFlight(k)' \subseteq InFlight(k)
          /\ \A j \in Key \ {k} : InFlight(j)' = InFlight(j)
      BY <2>k, <2>1, <2>2, <1>e
    <3> QED BY <2>1, <2>2, <3>1, <3>2, ToLand
  <2>4. CASE UNCHANGED store
    <3>1. \A j \in Key : Served(j)' = Served(j) BY <2>2, <2>4, ServedKept
    <3> QED BY <2>k, <2>2, <3>1, <1>e, ToForget
  <2> QED BY <2>k, <1>9, <2>3, <2>4 DEF PersistUsage
<1>10. ASSUME NEW k \in Key, NEW v \in Nat, Counts(k, v), UNCHANGED <<usage, store, floor>>,
              \A j \in Key : InFlight(j)' = InFlight(j)
       PROVE  Copies!Next
  BY <1>10, <1>0, ServedKept, ToChange DEF Same
<1>11. ASSUME NEW c \in Caller, PostApplied(c) PROVE Copies!Next
  <2>1. call[c].key \in Key /\ call[c].qty \in Nat BY <1>11, <1>0, AtKey DEF PostApplied
  <2>2. api[call[c].key][Version(call[c].key)] + call[c].qty \in Nat
    BY <2>1, <1>0, CurrentTyped
  <2>3. \A j \in Key : InFlight(j)' = InFlight(j) BY <1>11, <1>d, <1>f DEF PostApplied
  <2> QED BY <1>11, <2>1, <2>2, <2>3, <1>10 DEF PostApplied
<1>12. ASSUME NEW c \in Caller, PostFailed(c) PROVE UNCHANGED Copies!vars
  BY <1>12, <1>g DEF PostFailed
<1>13. ASSUME NEW c \in Caller, DropUsage(c) PROVE Copies!Next
  <2>1. \A k \in Key : Live(usage'[k]) => usage'[k] = usage[k] BY <1>13, <1>0 DEF DropUsage, Live
  <2>2. \A k \in Key : Served(k)' \subseteq Served(k) BY <1>13, <2>1, ServedLess DEF DropUsage
  <2>3. \A k \in Key : InFlight(k)' = InFlight(k) BY <1>13, <1>d, <1>f DEF DropUsage
  <2> QED BY <1>13, <2>2, <2>3, ToForget DEF DropUsage
<1>14. ASSUME NEW c \in Caller, DropStored(c) PROVE Copies!Next \/ UNCHANGED Copies!vars
  <2>k. PICK k \in Key : k = call[c].key BY <1>14, <1>a DEF DropStored
  <2>1. k \in Key /\ usage[k] = None /\ UNCHANGED <<api, usage>> /\ Return(c)
    BY <2>k, <1>14, <1>a, <1>0 DEF DropStored, DropInv
  <2>2. CASE /\ store' = [store EXCEPT ![k] = None]
             /\ floor' = [floor EXCEPT ![k] = Version(k)]
    <3>1. store'[k] = None /\ \A j \in Key \ {k} : store'[j] = store[j] BY <2>1, <2>2, <1>0
    <3>2. Served(k)' = {} BY <2>1, <3>1 DEF Served, Cached, Live, CopyOf
    <3>3. \A j \in Key \ {k} : Served(j)' = Served(j)
      BY <2>1, <3>1 DEF Served, Cached, Live, CopyOf
    <3>4. \A j \in Key : Served(j)' = IF j \in {k} THEN {} ELSE Served(j) BY <3>2, <3>3
    <3>5. floor' = [j \in Key |-> IF j \in {k} THEN Len(api[j]) ELSE floor[j]]
      BY <2>1, <2>2, <1>0 DEF TypeInv, Typed, Version
    <3>6. \A j \in Key : InFlight(j)' \subseteq InFlight(j) BY <2>k, <2>1, <1>e
    <3>7. {k} \in SUBSET Key BY <2>1
    <3>8. Copies!Next BY <2>1, <3>4, <3>5, <3>6, <3>7, ToDrop
    <3> QED BY <3>8
  <2>3. CASE UNCHANGED <<store, floor>> BY <2>k, <1>14, <2>1, <2>3, <1>g DEF DropStored
  <2> QED BY <2>k, <1>14, <2>2, <2>3 DEF DropStored
<1>15. ASSUME NEW c \in Caller, ClearStored(c) PROVE Copies!Next
  <2>1. \A k \in Key : Live(store'[k]) => store'[k] = store[k] BY <1>15 DEF ClearStored, Live
  <2>2. \A k \in Key : Served(k)' \subseteq Served(k) BY <1>15, <2>1, ServedLess DEF ClearStored
  <2>3. \A k \in Key : InFlight(k)' = InFlight(k) BY <1>15, <1>d, <1>f DEF ClearStored
  <2> QED BY <1>15, <2>2, <2>3, ToForget DEF ClearStored
<1>16. ASSUME NEW c \in Caller, ClearMemory(c) PROVE Copies!Next
  <2> DEFINE keys == SameWorkspace(c)
  <2>1. UNCHANGED <<api, store>> /\ Return(c) /\ keys \in SUBSET Key
    BY <1>16 DEF ClearMemory, SameWorkspace
  <2>2. usage' = [k \in Key |-> IF k \in keys THEN None ELSE usage[k]] BY <1>16 DEF ClearMemory
  <2>3. \A k \in Key : InFlight(k)' \subseteq InFlight(k) BY <2>1, <1>e
  <2>4. CASE pc[c] = "clearMemory"
    <3>1. \A k \in keys : store[k] = None BY <2>4, <1>0 DEF DropInv
    <3>2. floor' = [k \in Key |-> IF k \in keys THEN Len(api[k]) ELSE floor[k]]
      BY <1>16, <2>4 DEF ClearMemory, Version
    <3> HIDE DEF keys
    <3>3. \A k \in keys : Served(k)' = {}
      BY <2>1, <2>2, <3>1 DEF Served, Cached, Live, CopyOf
    <3>4. \A k \in Key \ keys : Served(k)' = Served(k)
      BY <2>1, <2>2 DEF Served, Cached, Live, CopyOf
    <3>5. \A k \in Key : Served(k)' = IF k \in keys THEN {} ELSE Served(k) BY <3>3, <3>4
    <3> QED BY <2>1, <2>3, <3>2, <3>5, ToDrop
  <2>5. CASE pc[c] = "clearFailed"
    <3>1. floor' = floor
      BY <1>16, <2>5, <1>0 DEF ClearMemory, TypeInv, Typed
    <3>2. \A k \in Key : Live(usage'[k]) => usage'[k] = usage[k] BY <2>2 DEF Live
    <3>3. \A k \in Key : Served(k)' \subseteq Served(k) BY <2>1, <3>2, ServedLess
    <3> QED BY <2>1, <2>3, <3>1, <3>3, ToForget
  <2> QED BY <1>16, <2>4, <2>5 DEF ClearMemory
<1>17. CASE ExternalUse \/ Reset
  <2>1. PICK k \in Key, v \in Nat : Counts(k, v)
    BY <1>17, <1>0, CurrentTyped, QuantityAssumption DEF ExternalUse, Reset
  <2>2. UNCHANGED <<usage, store, pc, call, held, floor>> BY <1>17 DEF ExternalUse, Reset
  <2>3. \A j \in Key : InFlight(j)' = InFlight(j) BY <2>2, FlightKept
  <2> QED BY <2>1, <2>2, <2>3, <1>10
<1>18. CASE Tick BY <1>18, <1>0, ToAge
<1>19. CASE Restart
  <2>1. \A k \in Key : Live(usage'[k]) => usage'[k] = usage[k] BY <1>19 DEF Restart, Live
  <2>2. \A k \in Key : Served(k)' \subseteq Served(k) BY <1>19, <2>1, ServedLess DEF Restart
  <2>3. \A k \in Key : InFlight(k)' \subseteq InFlight(k) BY <1>19, FlightLess DEF Restart
  <2> QED BY <1>19, <2>2, <2>3, ToForget DEF Restart
<1>20. CASE UNCHANGED vars
  <2>1. \A k \in Key : InFlight(k)' = InFlight(k) BY <1>20, FlightKept DEF vars
  <2> QED BY <1>20, <2>1, ServedKept, ToStutter DEF vars, Same
<1> QED
  BY <1>1, <1>2, <1>3, <1>4, <1>5, <1>6, <1>7, <1>8, <1>9, <1>11, <1>12, <1>13,
     <1>14, <1>15, <1>16, <1>17, <1>18, <1>19, <1>20 DEF Next, Steps

\* With an API behind it, the cache implements ApiCopies, for any number of
\* callers, workspaces and pools, with every failure and crash: what is served
\* is what the API said of that key, young enough; a drop that reports success
\* leaves nothing, and an older count can only come back out of the hands of a
\* call that was under way.
THEOREM CacheImplementsCopies == ASSUME HasClient PROVE Spec => ImplementsCopies
<1>1. Init => CopiesInv
  <2>1. Init => TypeInv /\ DropInv BY TypeInit, DropInit
  <2> QED BY <2>1 DEF Init, CopiesInv, OnlyCanReads, Reading, AgeInv, Live
<1>2. CopiesInv /\ [Next]_vars => CopiesInv'
  BY TypeStep, OnlyCanReadsStep, AgeStep, DropStep DEF CopiesInv
<1>3. Init => Copies!Init
  <2> SUFFICES ASSUME Init PROVE Copies!Init OBVIOUS
  <2>1. \A k \in Key : Served(k) = {} BY DEF Init, Served, Cached, Live
  <2>2. \A k \in Key : InFlight(k) = {} BY DEF Init, InFlight
  <2> QED BY <2>1, <2>2 DEF Init, Copies!Init
<1> QED BY <1>1, <1>2, <1>3, CopiesStep, PTL DEF Spec, ImplementsCopies, Copies!Spec
===============================================================================
