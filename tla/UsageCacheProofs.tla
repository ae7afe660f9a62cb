--------------------------- MODULE UsageCacheProofs ---------------------------
(***************************************************************************)
(* Theorems about UsageCache, for every set of callers, workspaces and     *)
(* pools, every TTL and every setting of the switches.                     *)
(***************************************************************************)
EXTENDS UsageCache, TLAPS

(* Where a caller stands says what it carries. *)
Located ==
    \A c \in Caller :
        /\ pc[c] # "idle" => call[c] # None
        /\ pc[c] \in {"warm", "set", "persist"} => held[c] # None

CallersTyped ==
    /\ pc \in [Caller -> Location]
    /\ call \in [Caller -> Call \cup {None}]
    /\ held \in [Caller -> Count \cup {None}]
    /\ Located

TypeInv == Typed /\ Located

-------------------------------------------------------------------------------
(* Lemmas on the operators *)

LEMMA AgedType == ASSUME NEW e \in Entry \cup {None} PROVE Aged(e) \in Entry \cup {None}
<1>1. CASE e = None BY <1>1 DEF Aged
<1>2. CASE e # None
  <2>1. e \in Entry BY <1>2
  <2>2. /\ e.age \in 0..MaxAge /\ e.left \in -1..TTL
        /\ Older(e.age) \in 0..MaxAge
        /\ (IF e.left >= 0 THEN e.left - 1 ELSE e.left) \in -1..TTL
    BY <2>1, TTLAssumption DEF Entry, Older, MaxAge
  <2> QED BY <1>2, <2>1, <2>2 DEF Aged, Entry
<1> QED BY <1>1, <1>2

LEMMA FreshType == ASSUME NEW n \in Count PROVE Fresh(n) \in Entry
BY TTLAssumption DEF Fresh, Count, Entry

LEMMA CountType ==
    ASSUME NEW v \in Nat, NEW s \in Nat, NEW a \in 0..MaxAge
    PROVE  [value |-> v, seen |-> s, age |-> a] \in Count
BY DEF Count

-------------------------------------------------------------------------------
(* Types *)

LEMMA TypeInit == Init => TypeInv
<1> SUFFICES ASSUME Init PROVE TypeInv OBVIOUS
<1>1. \A k \in Key : api[k] \in Seq(Nat) /\ Len(api[k]) > 0 BY DEF Init
<1>2. api \in [Key -> Seq(Nat)] BY <1>1 DEF Init
<1> QED BY <1>1, <1>2 DEF Init, TypeInv, Typed, Located, Location

\* The callers' variables stay typed when a caller moves on within its call,
\* takes up a count, or returns.
LEMMA GoTyped ==
    ASSUME TypeInv, NEW c \in Caller, NEW l \in Location, Go(c, l),
           call[c] # None, l \in {"warm", "set", "persist"} => held[c] # None
    PROVE  CallersTyped'
BY DEF Go, TypeInv, Typed, Located, CallersTyped

LEMMA CarryTyped ==
    ASSUME TypeInv, NEW c \in Caller, NEW l \in Location,
           NEW v \in Nat, NEW s \in Nat, NEW a \in 0..MaxAge,
           Carry(c, l, v, s, a), call[c] # None
    PROVE  CallersTyped'
<1> DEFINE n == [value |-> v, seen |-> s, age |-> a]
<1>1. n \in Count /\ n # None BY NoneAssumption DEF Count
<1>2. held' = [held EXCEPT ![c] = n] BY DEF Carry
<1> HIDE DEF n
<1> QED BY <1>1, <1>2 DEF Carry, TypeInv, Typed, Located, CallersTyped

LEMMA ReturnTyped ==
    ASSUME TypeInv, NEW c \in Caller, Return(c) PROVE CallersTyped'
BY DEF Return, TypeInv, Typed, Located, Location, CallersTyped

LEMMA HitTyped ==
    ASSUME TypeInv, NEW c \in Caller, call[c] # None,
           NEW n \in Entry \cup Count, Hit(c, n)
    PROVE  CallersTyped'
<1>1. CASE Return(c) BY <1>1, ReturnTyped
<1>2. CASE Carry(c, "set", n.value + call[c].qty, 0, 0)
  <2>1. n.value + call[c].qty \in Nat BY DEF TypeInv, Typed, Call, Entry, Count
  <2>2. 0 \in 0..MaxAge BY TTLAssumption DEF MaxAge
  <2> QED BY <1>2, <2>1, <2>2, CarryTyped DEF Location
<1> QED BY <1>1, <1>2 DEF Hit

LEMMA MissTyped ==
    ASSUME TypeInv, NEW c \in Caller, call[c] # None, Miss(c)
    PROVE  CallersTyped'
<1>1. CASE Return(c) BY <1>1, ReturnTyped
<1>2. CASE Go(c, "fetch") BY <1>2, GoTyped DEF Location
<1>3. CASE Carry(c, "set", call[c].qty, 0, 0)
  <2>1. call[c].qty \in Nat BY DEF TypeInv, Typed, Call
  <2>2. 0 \in 0..MaxAge BY TTLAssumption DEF MaxAge
  <2> QED BY <1>3, <2>1, <2>2, CarryTyped DEF Location
<1>4. \/ call[c].op = "can" /\ HasClient
      \/ call[c].op = "can" /\ ~HasClient
      \/ call[c].op # "can"
  OBVIOUS
<1> QED BY <1>1, <1>2, <1>3, <1>4 DEF Miss

\* A count written under its key keeps memory and the store typed.
LEMMA CurrentTyped ==
    ASSUME TypeInv, NEW k \in Key
    PROVE  Version(k) \in Nat \ {0} /\ api[k][Version(k)] \in Nat
BY DEF TypeInv, Typed, Version

LEMMA CountsTyped ==
    ASSUME TypeInv, NEW k \in Key, NEW v \in Nat, Counts(k, v)
    PROVE  api' \in [Key -> Seq(Nat)] /\ \A j \in Key : Len(api'[j]) > 0
<1>0. api[k] \in Seq(Nat) BY DEF TypeInv, Typed
<1>1. Append(api[k], v) \in Seq(Nat) /\ Len(Append(api[k], v)) > 0
  BY <1>0
<1>2. api' = [api EXCEPT ![k] = Append(api[k], v)] BY DEF Counts
<1> QED BY <1>1, <1>2 DEF TypeInv, Typed

LEMMA AtKey ==
    ASSUME TypeInv, NEW c \in Caller, pc[c] # "idle"
    PROVE  /\ call[c] # None /\ call[c] \in Call
           /\ call[c].key \in Key /\ call[c].qty \in Nat
BY DEF TypeInv, Typed, Located, Call

-------------------------------------------------------------------------------
LEMMA TypeStep == TypeInv /\ [Next]_vars => TypeInv'
<1> SUFFICES ASSUME TypeInv, [Next]_vars PROVE TypeInv' OBVIOUS
<1> USE DEF cache
<1>0. CallersTyped' /\ UNCHANGED <<api, usage, store, lock, floor>> => TypeInv'
  BY DEF TypeInv, Typed, CallersTyped
<1>1. ASSUME NEW c \in Caller, Starts(c) PROVE TypeInv'
  <2>1. PICK op \in {"can", "record", "invalidate"}, k \in Key, q \in Nat, l \in Location :
            Begin(c, op, k, q, l) /\ l \notin {"warm", "set", "persist"}
    BY <1>1, QuantityAssumption DEF Starts, StartCan, StartRecord, StartInvalidate, Location
  <2> DEFINE m == [op |-> op, key |-> k, qty |-> q]
  <2>2. m \in Call /\ m # None BY NoneAssumption DEF Call
  <2>3. call' = [call EXCEPT ![c] = m] BY <2>1 DEF Begin
  <2> HIDE DEF m
  <2> QED BY <2>1, <2>2, <2>3 DEF Begin, TypeInv, Typed, Located
<1>2. ASSUME NEW c \in Caller, Peek(c) PROVE TypeInv'
  <2>1. pc[c] = "peek" /\ call[c].key \in Key /\ call[c] # None BY <1>2, AtKey DEF Peek
  <2>2. CASE Go(c, "read") \/ Go(c, "evict") BY <2>1, <2>2, <1>2, <1>0, GoTyped DEF Location, Peek
  <2>3. CASE Live(usage[call[c].key]) /\ Hit(c, usage[call[c].key])
    <3>1. usage[call[c].key] \in Entry BY <2>1, <2>3 DEF Live, TypeInv, Typed
    <3> QED BY <2>1, <2>3, <3>1, <1>2, <1>0, HitTyped DEF Peek
  <2> QED BY <1>2, <2>2, <2>3 DEF Peek
<1>3. ASSUME NEW c \in Caller, Evict(c) PROVE TypeInv'
  <2>1. CallersTyped' BY <1>3, AtKey, GoTyped DEF Evict, Location
  <2>2. usage' \in [Key -> Entry \cup {None}] BY <1>3 DEF Evict, TypeInv, Typed
  <2> QED BY <1>3, <2>1, <2>2 DEF Evict, TypeInv, Typed, CallersTyped
<1>4. ASSUME NEW c \in Caller, ReadStore(c) PROVE TypeInv'
  <2> DEFINE e == store[call[c].key]
  <2>1. pc[c] = "read" /\ call[c].key \in Key /\ call[c] # None BY <1>4, AtKey DEF ReadStore
  <2>2. CASE Live(e) /\ Carry(c, "warm", e.value, e.seen, e.age)
    <3>1. e \in Entry BY <2>1, <2>2 DEF Live, TypeInv, Typed
    <3>2. e.value \in Nat /\ e.seen \in Nat /\ e.age \in 0..MaxAge BY <3>1 DEF Entry
    <3> QED BY <2>1, <2>2, <3>2, <1>4, <1>0, CarryTyped DEF ReadStore, Location
  <2>3. CASE Miss(c) BY <2>1, <2>3, <1>4, <1>0, MissTyped DEF ReadStore
  <2> QED BY <1>4, <2>2, <2>3 DEF ReadStore
<1>5. ASSUME NEW c \in Caller, Warm(c) PROVE TypeInv'
  <2>1. held[c] \in Count BY <1>5 DEF Warm, TypeInv, Typed, Located
  <2>2. CallersTyped' BY <1>5, <2>1, AtKey, HitTyped DEF Warm
  <2>3. usage' \in [Key -> Entry \cup {None}]
    BY <1>5, <2>1, FreshType DEF Warm, TypeInv, Typed
  <2> QED BY <1>5, <2>2, <2>3 DEF Warm, TypeInv, Typed, CallersTyped
<1>6. ASSUME NEW c \in Caller, FetchAnswered(c) \/ FetchFailed(c) PROVE TypeInv'
  <2>1. pc[c] = "fetch" /\ call[c].key \in Key /\ call[c] # None
    BY <1>6, AtKey DEF FetchAnswered, FetchFailed
  <2>2. CallersTyped'
    <3>1. CASE Return(c) BY <3>1, ReturnTyped
    <3>2. CASE Carry(c, "set", api[call[c].key][Version(call[c].key)], Version(call[c].key), 0)
      <4>1. 0 \in 0..MaxAge BY TTLAssumption DEF MaxAge
      <4> QED BY <2>1, <3>2, <4>1, CurrentTyped, CarryTyped DEF Location
    <3> QED BY <1>6, <3>1, <3>2 DEF FetchAnswered, FetchFailed
  <2> QED BY <1>6, <2>2, <1>0 DEF FetchAnswered, FetchFailed
<1>7. ASSUME NEW c \in Caller, SetUsage(c) PROVE TypeInv'
  <2>1. held[c] \in Count BY <1>7 DEF SetUsage, TypeInv, Typed, Located
  <2>2. CallersTyped' BY <1>7, <2>1, NoneAssumption, AtKey, GoTyped DEF SetUsage, Location
  <2>3. usage' \in [Key -> Entry \cup {None}]
    BY <1>7, <2>1, FreshType DEF SetUsage, TypeInv, Typed
  <2> QED BY <1>7, <2>2, <2>3 DEF SetUsage, TypeInv, Typed, CallersTyped
<1>8. ASSUME NEW c \in Caller, PersistUsage(c) PROVE TypeInv'
  <2>1. held[c] \in Count BY <1>8 DEF PersistUsage, TypeInv, Typed, Located
  <2>2. CallersTyped' BY <1>8, ReturnTyped DEF PersistUsage
  <2>3. store' \in [Key -> Entry \cup {None}]
    BY <1>8, <2>1, FreshType DEF PersistUsage, TypeInv, Typed
  <2> QED BY <1>8, <2>2, <2>3 DEF PersistUsage, TypeInv, Typed, CallersTyped
<1>9. ASSUME NEW c \in Caller, PostApplied(c) \/ PostFailed(c) PROVE TypeInv'
  <2>1. pc[c] = "post" /\ call[c] # None /\ call[c].key \in Key /\ call[c].qty \in Nat
    BY <1>9, AtKey DEF PostApplied, PostFailed
  <2>2. CallersTyped'
    <3>1. CASE Return(c) BY <3>1, ReturnTyped
    <3>2. CASE Go(c, "drop") BY <2>1, <3>2, GoTyped DEF Location
    <3> QED BY <1>9, <3>1, <3>2 DEF PostApplied, PostFailed
  <2>3. CASE PostFailed(c) BY <2>2, <2>3, <1>0 DEF PostFailed
  <2>4. CASE PostApplied(c)
    <3>1. api[call[c].key][Version(call[c].key)] + call[c].qty \in Nat
      BY <2>1, CurrentTyped
    <3>2. api' \in [Key -> Seq(Nat)] /\ \A j \in Key : Len(api'[j]) > 0
      BY <2>1, <2>4, <3>1, CountsTyped DEF PostApplied
    <3> QED BY <2>2, <2>4, <3>2 DEF PostApplied, TypeInv, Typed, CallersTyped
  <2> QED BY <1>9, <2>3, <2>4
<1>10. ASSUME NEW c \in Caller, DropUsage(c) PROVE TypeInv'
  <2>1. CallersTyped' BY <1>10, AtKey, GoTyped DEF DropUsage, Location
  <2>2. usage' \in [Key -> Entry \cup {None}] BY <1>10 DEF DropUsage, TypeInv, Typed
  <2> QED BY <1>10, <2>1, <2>2 DEF DropUsage, TypeInv, Typed, CallersTyped
<1>11. ASSUME NEW c \in Caller, DropStored(c) PROVE TypeInv'
  <2>1. CallersTyped' BY <1>11, ReturnTyped DEF DropStored
  <2>2. call[c].key \in Key BY <1>11, AtKey DEF DropStored
  <2>3. /\ store' \in [Key -> Entry \cup {None}]
        /\ floor' \in [Key -> Nat]
    <3>1. Version(call[c].key) \in Nat BY <2>2, CurrentTyped
    <3>2. CASE /\ store' = [store EXCEPT ![call[c].key] = None]
               /\ floor' = [floor EXCEPT ![call[c].key] = Version(call[c].key)]
      BY <2>2, <3>1, <3>2 DEF TypeInv, Typed
    <3>3. CASE UNCHANGED <<store, floor>> BY <3>3 DEF TypeInv, Typed
    <3> QED BY <1>11, <3>2, <3>3 DEF DropStored
  <2> QED BY <1>11, <2>1, <2>3 DEF DropStored, TypeInv, Typed, CallersTyped
<1>12. ASSUME NEW c \in Caller, ClearStored(c) PROVE TypeInv'
  <2>1. CallersTyped' BY <1>12, AtKey, GoTyped DEF ClearStored, Location
  <2>2. store' \in [Key -> Entry \cup {None}] BY <1>12 DEF ClearStored, TypeInv, Typed
  <2> QED BY <1>12, <2>1, <2>2 DEF ClearStored, TypeInv, Typed, CallersTyped
<1>13. ASSUME NEW c \in Caller, ClearMemory(c) PROVE TypeInv'
  <2>1. CallersTyped' BY <1>13, ReturnTyped DEF ClearMemory
  <2>2. usage' \in [Key -> Entry \cup {None}] BY <1>13 DEF ClearMemory, TypeInv, Typed
  <2>3. floor' \in [Key -> Nat] BY <1>13, CurrentTyped DEF ClearMemory, TypeInv, Typed
  <2> QED BY <1>13, <2>1, <2>2, <2>3 DEF ClearMemory, TypeInv, Typed, CallersTyped
<1>14. ASSUME ExternalUse \/ Reset PROVE TypeInv'
  <2>1. PICK k \in Key, v \in Nat : Counts(k, v)
    BY <1>14, CurrentTyped, QuantityAssumption DEF ExternalUse, Reset
  <2>2. api' \in [Key -> Seq(Nat)] /\ \A j \in Key : Len(api'[j]) > 0 BY <2>1, CountsTyped
  <2> QED BY <1>14, <2>2 DEF ExternalUse, Reset, TypeInv, Typed, Located
<1>15. ASSUME Tick PROVE TypeInv'
  <2>1. usage' \in [Key -> Entry \cup {None}]
    BY <1>15, AgedType DEF Tick, TypeInv, Typed
  <2>2. store' \in [Key -> Entry \cup {None}]
    BY <1>15, AgedType DEF Tick, AgedInStore, TypeInv, Typed
  <2>3. \A c \in Caller : held[c] # None =>
            [held[c] EXCEPT !.age = Older(@)] \in Count
    <3> SUFFICES ASSUME NEW c \in Caller, held[c] # None
                 PROVE  [held[c] EXCEPT !.age = Older(@)] \in Count
      OBVIOUS
    <3>1. held[c] \in Count BY DEF TypeInv, Typed
    <3>2. Older(held[c].age) \in 0..MaxAge BY <3>1, TTLAssumption DEF Count, Older, MaxAge
    <3> QED BY <3>1, <3>2 DEF Count
  <2>4. held' \in [Caller -> Count \cup {None}] BY <1>15, <2>3 DEF Tick, TypeInv, Typed
  <2>5. Located' BY <1>15, <2>3, NoneAssumption DEF Tick, TypeInv, Typed, Located
  <2> QED BY <1>15, <2>1, <2>2, <2>4, <2>5 DEF Tick, TypeInv, Typed
<1>16. ASSUME Restart PROVE TypeInv'
  BY <1>16 DEF Restart, TypeInv, Typed, Located, Location
<1>17. CASE UNCHANGED vars BY <1>17 DEF vars, TypeInv, Typed, Located
<1> QED
  BY <1>1, <1>2, <1>3, <1>4, <1>5, <1>6, <1>7, <1>8, <1>9, <1>10, <1>11, <1>12,
     <1>13, <1>14, <1>15, <1>16, <1>17 DEF Next, Steps

\* A locked section is entered with the lock free, and left with it.
LEMMA ExclusiveStep == TypeInv /\ Exclusive /\ [Next]_vars => Exclusive'
<1> SUFFICES ASSUME TypeInv, Exclusive, [Next]_vars PROVE Exclusive' OBVIOUS
<1> USE FreeAssumption DEF Exclusive, Locked, TypeInv, Typed, cache
<1>1. ASSUME NEW c \in Caller, Starts(c) PROVE Exclusive'
  BY <1>1 DEF Starts, StartCan, StartRecord, StartInvalidate, Begin
<1>2. ASSUME NEW c \in Caller, Peek(c) \/ Evict(c) \/ ReadStore(c) \/ Warm(c)
      PROVE  Exclusive'
  BY <1>2 DEF Peek, Evict, ReadStore, Warm, Hit, Miss, Go, Carry, Return
<1>3. ASSUME NEW c \in Caller, FetchAnswered(c) \/ FetchFailed(c) PROVE Exclusive'
  BY <1>3 DEF FetchAnswered, FetchFailed, Carry, Return
<1>4. ASSUME NEW c \in Caller, SetUsage(c) \/ PersistUsage(c) PROVE Exclusive'
  BY <1>4 DEF SetUsage, PersistUsage, Go, Return
<1>5. ASSUME NEW c \in Caller, PostApplied(c) \/ PostFailed(c) PROVE Exclusive'
  BY <1>5 DEF PostApplied, PostFailed, Go, Return
<1>6. ASSUME NEW c \in Caller, DropUsage(c) \/ DropStored(c) PROVE Exclusive'
  BY <1>6 DEF DropUsage, DropStored, Go, Return
<1>7. ASSUME NEW c \in Caller, ClearStored(c) \/ ClearMemory(c) PROVE Exclusive'
  BY <1>7 DEF ClearStored, ClearMemory, Go, Return
<1>8. CASE ExternalUse \/ Reset \/ Tick \/ Restart
  BY <1>8 DEF ExternalUse, Reset, Tick, Restart
<1>9. CASE UNCHANGED vars BY <1>9 DEF vars
<1> QED
  BY <1>1, <1>2, <1>3, <1>4, <1>5, <1>6, <1>7, <1>8, <1>9 DEF Next, Steps

\* The variables keep their types in every run (usageCacheKey to count maps,
\* one lock holder at a time, one call per goroutine).
THEOREM TypeCorrect == Spec => []TypeOK
<1>1. Init => Exclusive BY FreeAssumption DEF Init, Exclusive, Locked
<1>2. TypeInv /\ Exclusive => TypeOK BY DEF TypeOK, TypeInv
<1> QED BY <1>1, <1>2, TypeInit, TypeStep, ExclusiveStep, PTL DEF Spec

-------------------------------------------------------------------------------
(* What is cached is true *)

(* With a client only Can reads and writes counts, and it lets go of the count *)
(* it carries when it returns.                                               *)
Reading == {"peek", "evict", "read", "warm", "fetch", "set", "persist"}

OnlyCanReads ==
    \A c \in Caller :
        /\ HasClient /\ pc[c] \in Reading => call[c].op = "can"
        /\ pc[c] \notin {"warm", "set", "persist"} => held[c] = None

TruthInv == TypeInv /\ OnlyCanReads /\ CachedWasTrue

LEMMA OnlyCanReadsStep == TypeInv /\ OnlyCanReads /\ [Next]_vars => OnlyCanReads'
<1> SUFFICES ASSUME TypeInv, OnlyCanReads, [Next]_vars PROVE OnlyCanReads' OBVIOUS
<1> USE DEF OnlyCanReads, Reading, TypeInv, Typed, cache
<1>1. ASSUME NEW c \in Caller, Starts(c) PROVE OnlyCanReads'
  <2>1. PICK op \in {"can", "record", "invalidate"}, k \in Key, q \in Nat, l \in Location :
            /\ Begin(c, op, k, q, l) /\ l \notin {"warm", "set", "persist"}
            /\ HasClient /\ l \in Reading => op = "can"
    BY <1>1, QuantityAssumption DEF Starts, StartCan, StartRecord, StartInvalidate, Location
  <2>2. call'[c].op = op BY <2>1 DEF Begin
  <2> QED BY <2>1, <2>2 DEF Begin
<1>2. ASSUME NEW c \in Caller, Peek(c) PROVE OnlyCanReads'
  BY <1>2 DEF Peek, Hit, Go, Carry, Return
<1>3. ASSUME NEW c \in Caller, Evict(c) PROVE OnlyCanReads' BY <1>3 DEF Evict, Go
<1>4. ASSUME NEW c \in Caller, ReadStore(c) PROVE OnlyCanReads'
  BY <1>4 DEF ReadStore, Miss, Go, Carry, Return
<1>5. ASSUME NEW c \in Caller, Warm(c) PROVE OnlyCanReads'
  BY <1>5 DEF Warm, Hit, Go, Carry, Return
<1>6. ASSUME NEW c \in Caller, FetchAnswered(c) \/ FetchFailed(c) PROVE OnlyCanReads'
  BY <1>6 DEF FetchAnswered, FetchFailed, Carry, Return
<1>7. ASSUME NEW c \in Caller, SetUsage(c) \/ PersistUsage(c) PROVE OnlyCanReads'
  BY <1>7 DEF SetUsage, PersistUsage, Go, Return
<1>8. ASSUME NEW c \in Caller, PostApplied(c) \/ PostFailed(c) PROVE OnlyCanReads'
  BY <1>8 DEF PostApplied, PostFailed, Go, Return
<1>9. ASSUME NEW c \in Caller, DropUsage(c) \/ DropStored(c) PROVE OnlyCanReads'
  BY <1>9 DEF DropUsage, DropStored, Go, Return
<1>10. ASSUME NEW c \in Caller, ClearStored(c) \/ ClearMemory(c) PROVE OnlyCanReads'
  BY <1>10 DEF ClearStored, ClearMemory, Go, Return
<1>11. CASE ExternalUse \/ Reset BY <1>11 DEF ExternalUse, Reset
<1>12. CASE Tick BY <1>12 DEF Tick
<1>13. CASE Restart BY <1>13 DEF Restart
<1>14. CASE UNCHANGED vars BY <1>14 DEF vars
<1> QED
  BY <1>1, <1>2, <1>3, <1>4, <1>5, <1>6, <1>7, <1>8, <1>9, <1>10, <1>11, <1>12,
     <1>13, <1>14 DEF Next, Steps

\* The API's history only grows, so what was true of it stays true.
LEMMA TruthKept ==
    ASSUME TypeInv, NEW j \in Key, NEW v \in Nat, Counts(j, v),
           NEW k \in Key, NEW n \in Entry \cup Count, Truthful(k, n)
    PROVE  Truthful(k, n)'
<1>0. api[k] \in Seq(Nat) /\ api[j] \in Seq(Nat) BY DEF TypeInv, Typed
<1>1. CASE j = k
  <2>1. api'[k] = Append(api[k], v) BY <1>1 DEF Counts, TypeInv, Typed
  <2> QED BY <1>0, <2>1 DEF Truthful, Version
<1>2. CASE j # k
  <2>1. api'[k] = api[k] BY <1>2 DEF Counts, TypeInv, Typed
  <2> QED BY <2>1 DEF Truthful, Version
<1> QED BY <1>1, <1>2

\* The truth about a count depends on the history, not on how long it is kept.
LEMMA TruthOfFresh ==
    ASSUME NEW k \in Key, NEW n \in Count, Truthful(k, n) PROVE Truthful(k, Fresh(n))
BY DEF Truthful, Fresh

LEMMA TruthOfAged ==
    ASSUME NEW k \in Key, NEW e \in Entry, Truthful(k, e) PROVE Truthful(k, Aged(e))
BY NoneAssumption DEF Truthful, Aged, Entry

\* Steps that leave the API alone need only account for what they write.
LEMMA TruthWritten ==
    ASSUME UNCHANGED api,
           \A k \in Key : usage'[k] # None => Truthful(k, usage'[k]),
           \A k \in Key : store'[k] # None => Truthful(k, store'[k]),
           \A c \in Caller : held'[c] # None => Truthful(call'[c].key, held'[c])
    PROVE  CachedWasTrue'
BY DEF CachedWasTrue, Truthful, Version

LEMMA TruthStep == TruthInv /\ [Next]_vars => CachedWasTrue'
<1> SUFFICES ASSUME TruthInv, [Next]_vars, HasClient PROVE CachedWasTrue'
  BY DEF CachedWasTrue
<1> USE DEF cache
<1>0. /\ TypeInv /\ OnlyCanReads
      /\ usage \in [Key -> Entry \cup {None}] /\ store \in [Key -> Entry \cup {None}]
      /\ held \in [Caller -> Count \cup {None}] /\ pc \in [Caller -> Location]
      /\ call \in [Caller -> Call \cup {None}]
  BY DEF TruthInv, TypeInv, Typed
<1>a. \A k \in Key : usage[k] # None => Truthful(k, usage[k])
  BY DEF TruthInv, CachedWasTrue
<1>b. \A k \in Key : store[k] # None => Truthful(k, store[k])
  BY DEF TruthInv, CachedWasTrue
<1>c. \A c \in Caller : held[c] # None => Truthful(call[c].key, held[c])
  BY DEF TruthInv, CachedWasTrue
<1>d. ASSUME NEW c \in Caller, pc[c] # "idle" PROVE call[c].key \in Key
  BY <1>0, <1>d, AtKey
<1>e. ASSUME NEW c \in Caller, pc[c] \in {"warm", "set", "persist"}
      PROVE  /\ held[c] \in Count /\ call[c].key \in Key
             /\ Fresh(held[c]) \in Entry /\ Truthful(call[c].key, Fresh(held[c]))
  BY <1>0, <1>c, <1>d, <1>e, FreshType, TruthOfFresh DEF TypeInv, Located
<1>1. ASSUME NEW c \in Caller, Starts(c) PROVE CachedWasTrue'
  <2>1. PICK m : /\ UNCHANGED <<api, usage, store, held>> /\ pc[c] = "idle"
                 /\ call' = [call EXCEPT ![c] = m]
    BY <1>1 DEF Starts, StartCan, StartRecord, StartInvalidate, Begin
  <2>2. held[c] = None BY <2>1, <1>0 DEF OnlyCanReads
  <2>3. \A d \in Caller : held'[d] # None => Truthful(call'[d].key, held'[d])
    BY <2>1, <2>2, <1>0, <1>c
  <2> QED BY <2>1, <2>3, <1>a, <1>b, TruthWritten
<1>2. ASSUME NEW c \in Caller, Peek(c) PROVE CachedWasTrue'
  <2>1. call[c].op = "can" BY <1>2, <1>0 DEF OnlyCanReads, Reading, Peek
  <2>2. \A d \in Caller : held'[d] # None => Truthful(call'[d].key, held'[d])
    BY <1>2, <2>1, <1>0, <1>c DEF Peek, Hit, Go, Return
  <2> QED BY <1>2, <2>2, <1>a, <1>b, TruthWritten DEF Peek
<1>3. ASSUME NEW c \in Caller, Evict(c) PROVE CachedWasTrue'
  <2>1. \A k \in Key : usage'[k] # None => Truthful(k, usage'[k])
    BY <1>3, <1>0, <1>a DEF Evict
  <2> QED BY <1>3, <2>1, <1>b, <1>c, TruthWritten DEF Evict, Go
<1>4. ASSUME NEW c \in Caller, ReadStore(c) PROVE CachedWasTrue'
  <2> DEFINE e == store[call[c].key]
  <2>1. call[c].op = "can" /\ call[c].key \in Key
    BY <1>4, <1>0, <1>d DEF OnlyCanReads, Reading, ReadStore
  <2>2. \A d \in Caller : held'[d] # None => Truthful(call'[d].key, held'[d])
    <3>1. CASE Live(e) /\ Carry(c, "warm", e.value, e.seen, e.age)
      <4>1. Truthful(call[c].key, e) BY <2>1, <3>1, <1>b DEF Live
      <4>2. Truthful(call[c].key, [value |-> e.value, seen |-> e.seen, age |-> e.age])
        BY <4>1 DEF Truthful
      <4> QED BY <3>1, <4>2, <1>0, <1>c DEF Carry
    <3>2. CASE Miss(c) BY <2>1, <3>2, <1>0, <1>c DEF Miss, Go, Return
    <3> QED BY <1>4, <3>1, <3>2 DEF ReadStore
  <2> QED BY <1>4, <2>2, <1>a, <1>b, TruthWritten DEF ReadStore
<1>5. ASSUME NEW c \in Caller, Warm(c) PROVE CachedWasTrue'
  <2>1. call[c].op = "can" BY <1>5, <1>0 DEF OnlyCanReads, Reading, Warm
  <2>2. \A k \in Key : usage'[k] # None => Truthful(k, usage'[k])
    BY <1>5, <1>e, <1>0, <1>a DEF Warm
  <2>3. \A d \in Caller : held'[d] # None => Truthful(call'[d].key, held'[d])
    BY <1>5, <2>1, <1>0, <1>c DEF Warm, Hit, Return
  <2> QED BY <1>5, <2>2, <2>3, <1>b, TruthWritten DEF Warm
<1>6. ASSUME NEW c \in Caller, FetchAnswered(c) \/ FetchFailed(c) PROVE CachedWasTrue'
  <2> DEFINE k == call[c].key
  <2>1. k \in Key BY <1>6, <1>d DEF FetchAnswered, FetchFailed
  <2>2. Truthful(k, [value |-> api[k][Version(k)], seen |-> Version(k), age |-> 0])
    BY <2>1, <1>0, CurrentTyped DEF Truthful
  <2>3. \A d \in Caller : held'[d] # None => Truthful(call'[d].key, held'[d])
    BY <1>6, <2>2, <1>0, <1>c DEF FetchAnswered, FetchFailed, Carry, Return
  <2> QED BY <1>6, <2>3, <1>a, <1>b, TruthWritten DEF FetchAnswered, FetchFailed
<1>7. ASSUME NEW c \in Caller, SetUsage(c) PROVE CachedWasTrue'
  <2>1. \A k \in Key : usage'[k] # None => Truthful(k, usage'[k])
    BY <1>7, <1>e, <1>0, <1>a DEF SetUsage
  <2> QED BY <1>7, <2>1, <1>b, <1>c, TruthWritten DEF SetUsage, Go
<1>8. ASSUME NEW c \in Caller, PersistUsage(c) PROVE CachedWasTrue'
  <2>1. \A k \in Key : store'[k] # None => Truthful(k, store'[k])
    BY <1>8, <1>e, <1>0, <1>b DEF PersistUsage
  <2>2. \A d \in Caller : held'[d] # None => Truthful(call'[d].key, held'[d])
    BY <1>8, <1>0, <1>c DEF PersistUsage, Return
  <2> QED BY <1>8, <2>1, <2>2, <1>a, TruthWritten DEF PersistUsage
<1>9. ASSUME NEW c \in Caller, PostFailed(c) PROVE CachedWasTrue'
  <2>1. \A d \in Caller : held'[d] # None => Truthful(call'[d].key, held'[d])
    BY <1>9, <1>0, <1>c DEF PostFailed, Return
  <2> QED BY <1>9, <2>1, <1>a, <1>b, TruthWritten DEF PostFailed
<1>10. ASSUME NEW c \in Caller, DropUsage(c) \/ DropStored(c) PROVE CachedWasTrue'
  <2>1. \A k \in Key : usage'[k] # None => Truthful(k, usage'[k])
    BY <1>10, <1>0, <1>a DEF DropUsage, DropStored
  <2>2. \A k \in Key : store'[k] # None => Truthful(k, store'[k])
    BY <1>10, <1>0, <1>b DEF DropUsage, DropStored
  <2>3. \A d \in Caller : held'[d] # None => Truthful(call'[d].key, held'[d])
    BY <1>10, <1>0, <1>c DEF DropUsage, DropStored, Go, Return
  <2> QED BY <1>10, <2>1, <2>2, <2>3, TruthWritten DEF DropUsage, DropStored
<1>11. ASSUME NEW c \in Caller, ClearStored(c) \/ ClearMemory(c) PROVE CachedWasTrue'
  <2>1. \A k \in Key : usage'[k] # None => Truthful(k, usage'[k])
    BY <1>11, <1>a DEF ClearStored, ClearMemory
  <2>2. \A k \in Key : store'[k] # None => Truthful(k, store'[k])
    BY <1>11, <1>b DEF ClearStored, ClearMemory
  <2>3. \A d \in Caller : held'[d] # None => Truthful(call'[d].key, held'[d])
    BY <1>11, <1>0, <1>c DEF ClearStored, ClearMemory, Go, Return
  <2> QED BY <1>11, <2>1, <2>2, <2>3, TruthWritten DEF ClearStored, ClearMemory
<1>12. ASSUME NEW j \in Key, NEW v \in Nat, Counts(j, v), UNCHANGED <<usage, store>>,
              \A c \in Caller : held'[c] # None => held'[c] = held[c] /\ call'[c] = call[c]
       PROVE  CachedWasTrue'
  <2>1. \A k \in Key : usage'[k] # None => Truthful(k, usage[k])'
    BY <1>12, <1>0, <1>a, TruthKept
  <2>2. \A k \in Key : store'[k] # None => Truthful(k, store[k])'
    BY <1>12, <1>0, <1>b, TruthKept
  <2>3. \A c \in Caller : held'[c] # None => Truthful(call[c].key, held[c])'
    BY <1>12, <1>0, <1>c, <1>d, TruthKept DEF OnlyCanReads
  <2> QED BY <2>1, <2>2, <2>3 DEF CachedWasTrue
<1>13. ASSUME NEW c \in Caller, PostApplied(c) PROVE CachedWasTrue'
  <2>1. call[c].key \in Key /\ call[c].qty \in Nat
    BY <1>13, <1>0, AtKey DEF PostApplied
  <2>2. api[call[c].key][Version(call[c].key)] + call[c].qty \in Nat
    BY <2>1, <1>0, CurrentTyped
  <2>3. \A d \in Caller : held'[d] # None => held'[d] = held[d] /\ call'[d] = call[d]
    BY <1>13, <1>0 DEF PostApplied, Go, Return
  <2> QED BY <1>13, <2>1, <2>2, <2>3, <1>12 DEF PostApplied
<1>14. ASSUME ExternalUse \/ Reset PROVE CachedWasTrue'
  <2>1. PICK k \in Key, v \in Nat : Counts(k, v)
    BY <1>14, <1>0, CurrentTyped, QuantityAssumption DEF ExternalUse, Reset
  <2> QED BY <1>14, <2>1, <1>12 DEF ExternalUse, Reset
<1>15. ASSUME Tick PROVE CachedWasTrue'
  <2>1. \A k \in Key : usage'[k] # None => Truthful(k, usage'[k])
    BY <1>15, <1>0, <1>a, TruthOfAged DEF Tick, Aged
  <2>2. \A k \in Key : store'[k] # None => Truthful(k, store'[k])
    BY <1>15, <1>0, <1>b, TruthOfAged DEF Tick, AgedInStore
  <2>3. \A c \in Caller : held'[c] # None => Truthful(call'[c].key, held'[c])
    <3> SUFFICES ASSUME NEW c \in Caller, held'[c] # None
                 PROVE  Truthful(call[c].key, held'[c])
      BY <1>15 DEF Tick
    <3>1. held[c] # None /\ held'[c] = [held[c] EXCEPT !.age = Older(@)]
      BY <1>15 DEF Tick
    <3>2. held'[c].value = held[c].value /\ held'[c].seen = held[c].seen
      BY <3>1, <1>0 DEF Count
    <3> QED BY <3>1, <3>2, <1>c DEF Truthful
  <2> QED BY <1>15, <2>1, <2>2, <2>3, TruthWritten DEF Tick
<1>16. CASE Restart BY <1>16, <1>b, TruthWritten DEF Restart
<1>17. CASE UNCHANGED vars BY <1>17, <1>a, <1>b, <1>c, TruthWritten DEF vars
<1> QED
  BY <1>1, <1>2, <1>3, <1>4, <1>5, <1>6, <1>7, <1>8, <1>9, <1>10, <1>11, <1>13,
     <1>14, <1>15, <1>16, <1>17 DEF Next, Steps

\* Every count that is cached, or on its way into the cache, is one the API's
\* counter of that workspace and pool had: no run of any number of callers,
\* with any failures and crashes, makes the service invent or misfile a count.
THEOREM CountsAreTrue == Spec => []CachedWasTrue
<1>1. Init => TruthInv
  <2>1. Init => TypeInv BY TypeInit
  <2> QED BY <2>1 DEF Init, TruthInv, OnlyCanReads, Reading, CachedWasTrue
<1>2. TruthInv /\ [Next]_vars => TruthInv'
  BY TypeStep, OnlyCanReadsStep, TruthStep DEF TruthInv
<1>3. TruthInv => CachedWasTrue BY DEF TruthInv
<1> QED BY <1>1, <1>2, <1>3, PTL DEF Spec

-------------------------------------------------------------------------------
(* How old a cached count gets *)

(* When local steps take no time, what an entry has behind it and what it has *)
(* ahead of it add up to one lifetime in the store, and to two in memory.    *)
AgeInv ==
    Prompt =>
        /\ \A k \in Key : Live(usage[k]) => usage[k].age + usage[k].left <= 2 * TTL
        /\ \A k \in Key : Live(store[k]) => store[k].age + store[k].left <= TTL
        /\ \A c \in Caller : pc[c] = "warm" => held[c].age <= TTL
        /\ \A c \in Caller : pc[c] \in {"set", "persist"} => held[c].age = 0

LEMMA AgedAge ==
    ASSUME NEW e \in Entry \cup {None}, Live(Aged(e))
    PROVE  Live(e) /\ Aged(e).age + Aged(e).left <= e.age + e.left
<1>1. e # None /\ e \in Entry BY DEF Live, Aged
<1>2. e.age \in Nat /\ e.left \in Int BY <1>1, TTLAssumption DEF Entry, MaxAge
<1>3. /\ Aged(e).age = Older(e.age)
      /\ Aged(e).left = IF e.left >= 0 THEN e.left - 1 ELSE e.left
  BY <1>1 DEF Aged, Entry
<1>4. e.left >= 1 BY <1>2, <1>3, TTLAssumption DEF Live
<1>5. Older(e.age) <= e.age + 1 BY <1>2, TTLAssumption DEF Older, MaxAge
<1>6. Older(e.age) \in Int BY <1>2 DEF Older
<1> QED BY <1>1, <1>2, <1>3, <1>4, <1>5, <1>6 DEF Live

LEMMA FreshAge ==
    ASSUME NEW n \in Count
    PROVE  Fresh(n).age = n.age /\ Fresh(n).left = TTL
BY DEF Fresh

LEMMA AgeStep == TypeInv /\ AgeInv /\ [Next]_vars => AgeInv'
<1> SUFFICES ASSUME TypeInv, AgeInv, [Next]_vars, Prompt PROVE AgeInv'
  BY DEF AgeInv
<1> USE DEF cache
<1>0. /\ usage \in [Key -> Entry \cup {None}] /\ store \in [Key -> Entry \cup {None}]
      /\ held \in [Caller -> Count \cup {None}] /\ pc \in [Caller -> Location]
      /\ call \in [Caller -> Call \cup {None}]
      /\ TTL \in Nat
  BY TTLAssumption DEF TypeInv, Typed
<1>a. \A k \in Key : Live(usage[k]) => usage[k].age + usage[k].left <= 2 * TTL
  BY DEF AgeInv
<1>b. \A k \in Key : Live(store[k]) => store[k].age + store[k].left <= TTL
  BY DEF AgeInv
<1>c. \A c \in Caller : /\ pc[c] = "warm" => held[c].age <= TTL
                        /\ pc[c] \in {"set", "persist"} => held[c].age = 0
  BY DEF AgeInv
<1>d. ASSUME NEW c \in Caller, pc[c] \in {"warm", "set", "persist"}
      PROVE  /\ held[c] \in Count /\ held[c].age \in Nat /\ call[c].key \in Key
             /\ Fresh(held[c]).age = held[c].age /\ Fresh(held[c]).left = TTL
  BY <1>0, <1>d, AtKey, FreshAge DEF TypeInv, Located, Count, MaxAge
\* The three ways in which a step can keep the callers' part of the invariant.
<1> DEFINE Callers == \A d \in Caller : /\ pc'[d] = "warm" => held'[d].age <= TTL
                                        /\ pc'[d] \in {"set", "persist"} => held'[d].age = 0
<1>e. ASSUME NEW c \in Caller, NEW l, Go(c, l), l \notin {"warm", "set", "persist"}
      PROVE  Callers
  BY <1>e, <1>0, <1>c DEF Go
<1>f. ASSUME NEW c \in Caller, Return(c) PROVE Callers
  BY <1>f, <1>0, <1>c DEF Return
<1>g. ASSUME NEW c \in Caller, NEW v, NEW s, Carry(c, "set", v, s, 0) PROVE Callers
  BY <1>g, <1>0, <1>c DEF Carry
<1>h. ASSUME NEW c \in Caller, NEW n, Hit(c, n) PROVE Callers
  BY <1>h, <1>f, <1>g DEF Hit
<1>i. ASSUME NEW c \in Caller, Miss(c) PROVE Callers
  <2>1. \/ Go(c, "fetch") \/ Return(c) \/ Carry(c, "set", call[c].qty, 0, 0)
    BY <1>i DEF Miss
  <2> QED BY <2>1, <1>e, <1>f, <1>g
<1>j. Callers /\ UNCHANGED <<usage, store>> => AgeInv' BY <1>a, <1>b DEF AgeInv, Live
<1> HIDE DEF Callers
<1>1. ASSUME NEW c \in Caller, Starts(c) PROVE AgeInv'
  <2>1. /\ UNCHANGED <<usage, store, held>>
        /\ pc' = [pc EXCEPT ![c] = "peek"] \/ pc' = [pc EXCEPT ![c] = "post"]
             \/ pc' = [pc EXCEPT ![c] = "clear"]
    BY <1>1 DEF Starts, StartCan, StartRecord, StartInvalidate, Begin
  <2>2. Callers BY <2>1, <1>0, <1>c DEF Callers
  <2> QED BY <2>1, <2>2, <1>j
<1>2. ASSUME NEW c \in Caller, Peek(c) PROVE AgeInv'
  BY <1>2, <1>e, <1>h, <1>j DEF Peek
<1>3. ASSUME NEW c \in Caller, Evict(c) PROVE AgeInv'
  <2>1. \A k \in Key : Live(usage'[k]) => usage'[k] = usage[k] BY <1>3, <1>0 DEF Evict, Live
  <2> QED BY <1>3, <2>1, <1>a, <1>b, <1>e DEF Evict, AgeInv, Live, Callers
<1>4. ASSUME NEW c \in Caller, ReadStore(c) PROVE AgeInv'
  <2> DEFINE e == store[call[c].key]
  <2>1. call[c].key \in Key BY <1>4, AtKey DEF ReadStore
  <2>2. CASE Live(e) /\ Carry(c, "warm", e.value, e.seen, e.age)
    <3>1. e.age \in Nat /\ e.left \in Nat BY <2>1, <2>2, <1>0 DEF Live, Entry, MaxAge
    <3>2. e.age <= TTL BY <2>1, <2>2, <3>1, <1>0, <1>b
    <3>3. Callers BY <2>2, <3>2, <1>0, <1>c DEF Carry, Callers
    <3> QED BY <1>4, <3>3, <1>j DEF ReadStore
  <2>3. CASE Miss(c) BY <1>4, <2>3, <1>i, <1>j DEF ReadStore
  <2> QED BY <1>4, <2>2, <2>3 DEF ReadStore
<1>5. ASSUME NEW c \in Caller, Warm(c) PROVE AgeInv'
  <2>1. Fresh(held[c]).age + Fresh(held[c]).left <= 2 * TTL
    BY <1>5, <1>0, <1>c, <1>d DEF Warm
  <2>2. \A k \in Key : Live(usage'[k]) => usage'[k].age + usage'[k].left <= 2 * TTL
    BY <1>5, <2>1, <1>0, <1>a DEF Warm
  <2>3. Callers BY <1>5, <1>h DEF Warm
  <2> QED BY <1>5, <2>2, <2>3, <1>b DEF Warm, AgeInv, Live, Callers
<1>6. ASSUME NEW c \in Caller, FetchAnswered(c) \/ FetchFailed(c) PROVE AgeInv'
  BY <1>6, <1>f, <1>g, <1>j DEF FetchAnswered, FetchFailed
<1>7. ASSUME NEW c \in Caller, SetUsage(c) PROVE AgeInv'
  <2>1. Fresh(held[c]).age + Fresh(held[c]).left <= 2 * TTL
    BY <1>7, <1>0, <1>c, <1>d DEF SetUsage
  <2>2. \A k \in Key : Live(usage'[k]) => usage'[k].age + usage'[k].left <= 2 * TTL
    BY <1>7, <2>1, <1>0, <1>a DEF SetUsage
  <2>3. Callers BY <1>7, <1>0, <1>c DEF SetUsage, Go, Callers
  <2> QED BY <1>7, <2>2, <2>3, <1>b DEF SetUsage, AgeInv, Live, Callers
<1>8. ASSUME NEW c \in Caller, PersistUsage(c) PROVE AgeInv'
  <2>1. Fresh(held[c]).age + Fresh(held[c]).left <= TTL
    BY <1>8, <1>0, <1>c, <1>d DEF PersistUsage
  <2>2. \A k \in Key : Live(store'[k]) => store'[k].age + store'[k].left <= TTL
    BY <1>8, <2>1, <1>0, <1>b DEF PersistUsage
  <2>3. Callers BY <1>8, <1>f DEF PersistUsage
  <2> QED BY <1>8, <2>2, <2>3, <1>a DEF PersistUsage, AgeInv, Live, Callers
<1>9. ASSUME NEW c \in Caller, PostApplied(c) \/ PostFailed(c) PROVE AgeInv'
  BY <1>9, <1>e, <1>f, <1>j DEF PostApplied, PostFailed
<1>10. ASSUME NEW c \in Caller, \/ DropUsage(c) \/ DropStored(c)
                                \/ ClearStored(c) \/ ClearMemory(c)
       PROVE AgeInv'
  <2>1. \A k \in Key : Live(usage'[k]) => usage'[k] = usage[k]
    BY <1>10, <1>0 DEF DropUsage, DropStored, ClearStored, ClearMemory, Live
  <2>2. \A k \in Key : Live(store'[k]) => store'[k] = store[k]
    BY <1>10, <1>0 DEF DropUsage, DropStored, ClearStored, ClearMemory, Live
  <2>3. Callers BY <1>10, <1>e, <1>f DEF DropUsage, DropStored, ClearStored, ClearMemory
  <2> QED BY <2>1, <2>2, <2>3, <1>a, <1>b DEF AgeInv, Live, Callers
<1>11. CASE ExternalUse \/ Reset
  BY <1>11, <1>0, <1>c, <1>j DEF ExternalUse, Reset, Callers
<1>12. CASE Tick
  <2>1. \A k \in Key : Live(usage'[k]) => usage'[k].age + usage'[k].left <= 2 * TTL
    <3> SUFFICES ASSUME NEW k \in Key, Live(Aged(usage[k]))
                 PROVE  Aged(usage[k]).age + Aged(usage[k]).left <= 2 * TTL
      BY <1>12 DEF Tick
    <3>1. Live(usage[k]) /\ Aged(usage[k]).age + Aged(usage[k]).left <= usage[k].age + usage[k].left
      BY <1>0, AgedAge
    <3>2. Aged(usage[k]) \in Entry /\ usage[k] \in Entry BY <1>0, <3>1, AgedType DEF Live
    <3> QED BY <3>1, <3>2, <1>0, <1>a DEF Entry, MaxAge
  <2>2. \A k \in Key : Live(store'[k]) => store'[k].age + store'[k].left <= TTL
    <3> SUFFICES ASSUME NEW k \in Key, Live(AgedInStore(store[k]))
                 PROVE  AgedInStore(store[k]).age + AgedInStore(store[k]).left <= TTL
      BY <1>12 DEF Tick
    <3>0. AgedInStore(store[k]) = Aged(store[k]) BY DEF AgedInStore, Live
    <3>1. Live(store[k]) /\ Aged(store[k]).age + Aged(store[k]).left <= store[k].age + store[k].left
      BY <3>0, <1>0, AgedAge
    <3>2. Aged(store[k]) \in Entry /\ store[k] \in Entry BY <3>0, <1>0, <3>1, AgedType DEF Live
    <3> QED BY <3>0, <3>1, <3>2, <1>0, <1>b DEF Entry, MaxAge
  <2>3. Callers BY <1>12 DEF Tick, Waiting, Callers
  <2> QED BY <2>1, <2>2, <2>3 DEF AgeInv, Live, Callers
<1>13. CASE Restart BY <1>13, <1>b DEF Restart, AgeInv, Live
<1>14. CASE UNCHANGED vars BY <1>14, <1>c, <1>j DEF vars, Callers
<1> QED
  BY <1>1, <1>2, <1>3, <1>4, <1>5, <1>6, <1>7, <1>8, <1>9, <1>10, <1>11, <1>12,
     <1>13, <1>14 DEF Next, Steps

\* No count is served more than two lifetimes after the API gave it: reading
\* the store back starts a lifetime in memory, never one in the store.
THEOREM StalenessIsBounded == Spec => []BoundedStaleness
<1>1. Init => AgeInv BY DEF Init, AgeInv, Live
<1>2. TypeInv /\ AgeInv => BoundedStaleness
  <2> SUFFICES ASSUME TypeInv, AgeInv, Prompt, NEW k \in Key, Live(usage[k])
               PROVE  usage[k].age <= 2 * TTL
    BY DEF BoundedStaleness
  <2>1. usage[k].age \in Nat /\ usage[k].left \in Nat
    BY DEF TypeInv, Typed, Live, Entry, MaxAge
  <2> QED BY <2>1, TTLAssumption DEF AgeInv
<1> QED BY <1>1, <1>2, TypeInit, TypeStep, AgeStep, PTL DEF Spec

-------------------------------------------------------------------------------
(* Dropped counts stay dropped when calls do not overlap *)

Sequential == \A c, d \in Caller : c = d

(* Nothing from before the last successful drop is kept anywhere, and a drop *)
(* in progress has already emptied the half it began with.                   *)
FreshInv ==
    HasClient =>
        /\ \A k \in Key : floor[k] <= Version(k)
        /\ \A k \in Key : usage[k] # None => usage[k].seen >= floor[k]
        /\ \A k \in Key : store[k] # None => store[k].seen >= floor[k]
        /\ \A c \in Caller :
              /\ pc[c] \in {"warm", "set", "persist"} => held[c].seen >= floor[call[c].key]
              /\ pc[c] = "dropStore" => usage[call[c].key] = None
              /\ pc[c] = "clearMemory" => \A k \in SameWorkspace(c) : store[k] = None

LEMMA VersionGrows ==
    ASSUME TypeInv, NEW j \in Key, NEW v, Counts(j, v), NEW k \in Key
    PROVE  Version(k)' \in Nat /\ Version(k)' >= Version(k)
<1>1. api[k] \in Seq(Nat) /\ api[j] \in Seq(Nat) BY DEF TypeInv, Typed
<1>2. api'[k] = IF k = j THEN Append(api[k], v) ELSE api[k]
  BY DEF Counts, TypeInv, Typed
<1>3. Len(Append(api[k], v)) = Len(api[k]) + 1 BY <1>1
<1> QED BY <1>1, <1>2, <1>3 DEF Version

LEMMA FreshStep ==
    ASSUME Sequential
    PROVE  TypeInv /\ OnlyCanReads /\ FreshInv /\ [Next]_vars => FreshInv'
<1> SUFFICES ASSUME TypeInv, OnlyCanReads, FreshInv, [Next]_vars, HasClient
             PROVE  FreshInv'
  BY DEF FreshInv
<1> USE DEF cache
<1>0. /\ usage \in [Key -> Entry \cup {None}] /\ store \in [Key -> Entry \cup {None}]
      /\ held \in [Caller -> Count \cup {None}] /\ pc \in [Caller -> Location]
      /\ call \in [Caller -> Call \cup {None}] /\ floor \in [Key -> Nat]
      /\ \A k \in Key : Version(k) \in Nat
  BY CurrentTyped DEF TypeInv, Typed
<1>a. /\ \A k \in Key : floor[k] <= Version(k)
      /\ \A k \in Key : usage[k] # None => usage[k].seen >= floor[k]
      /\ \A k \in Key : store[k] # None => store[k].seen >= floor[k]
  BY DEF FreshInv
<1>b. ASSUME NEW c \in Caller
      PROVE  /\ pc[c] \in {"warm", "set", "persist"} => held[c].seen >= floor[call[c].key]
             /\ pc[c] = "dropStore" => usage[call[c].key] = None
             /\ pc[c] = "clearMemory" => \A k \in SameWorkspace(c) : store[k] = None
  BY DEF FreshInv
<1>c. ASSUME NEW c \in Caller, pc[c] # "idle" PROVE call[c].key \in Key
  BY <1>c, AtKey
<1>d. ASSUME NEW c \in Caller, pc[c] \in {"warm", "set", "persist"}
      PROVE  Fresh(held[c]).seen = held[c].seen /\ Fresh(held[c]).seen >= floor[call[c].key]
  BY <1>b, <1>d DEF Fresh
<1>e. UNCHANGED api => \A k \in Key : Version(k)' = Version(k) BY DEF Version
\* With one caller a step that ends outside the guarded places owes nothing more.
<1> DEFINE Elsewhere(c) == pc'[c] \notin {"warm", "set", "persist", "dropStore", "clearMemory"}
<1>f. ASSUME NEW c \in Caller, Go(c, "fetch") \/ Go(c, "read") \/ Go(c, "evict")
             \/ Go(c, "drop") \/ Go(c, "clearFailed") \/ Return(c)
      PROVE  Elsewhere(c)
  BY <1>f, <1>0 DEF Go, Return
<1>g. ASSUME NEW c \in Caller, Elsewhere(c),
             \A k \in Key : floor'[k] <= Version(k)',
             \A k \in Key : usage'[k] # None => usage'[k].seen >= floor'[k],
             \A k \in Key : store'[k] # None => store'[k].seen >= floor'[k]
      PROVE  FreshInv'
  BY <1>g, Sequential DEF FreshInv, Sequential
<1> HIDE DEF Elsewhere
<1>h. ASSUME NEW c \in Caller, Elsewhere(c), UNCHANGED <<api, usage, store, floor>>
      PROVE  FreshInv'
  BY <1>a, <1>e, <1>g, <1>h
<1>1. ASSUME NEW c \in Caller, Starts(c) PROVE FreshInv'
  <2>1. pc' = [pc EXCEPT ![c] = "peek"] \/ pc' = [pc EXCEPT ![c] = "post"]
             \/ pc' = [pc EXCEPT ![c] = "clear"]
    BY <1>1 DEF Starts, StartCan, StartRecord, StartInvalidate, Begin
  <2>2. Elsewhere(c) BY <2>1, <1>0 DEF Elsewhere
  <2> QED BY <1>1, <2>2, <1>h DEF Starts, StartCan, StartRecord, StartInvalidate, Begin
<1>2. ASSUME NEW c \in Caller, Peek(c) PROVE FreshInv'
  <2>1. call[c].op = "can" BY <1>2 DEF OnlyCanReads, Reading, Peek
  <2>2. Elsewhere(c) BY <1>2, <2>1, <1>f DEF Peek, Hit
  <2> QED BY <1>2, <2>2, <1>h DEF Peek
<1>3. ASSUME NEW c \in Caller, Evict(c) PROVE FreshInv'
  <2>1. \A k \in Key : usage'[k] # None => usage'[k] = usage[k] BY <1>3, <1>0 DEF Evict
  <2> QED BY <1>3, <2>1, <1>a, <1>e, <1>f, <1>g DEF Evict
<1>4. ASSUME NEW c \in Caller, ReadStore(c) PROVE FreshInv'
  <2> DEFINE e == store[call[c].key]
  <2>1. call[c].op = "can" /\ call[c].key \in Key
    BY <1>4, <1>c DEF OnlyCanReads, Reading, ReadStore
  <2>2. CASE Live(e) /\ Carry(c, "warm", e.value, e.seen, e.age)
    <3>1. held'[c].seen >= floor[call[c].key] /\ pc'[c] = "warm"
      BY <2>1, <2>2, <1>0, <1>a DEF Live, Carry
    <3>2. UNCHANGED <<call, api, usage, store, floor>> BY <1>4, <2>2 DEF ReadStore, Carry
    <3> QED BY <3>1, <3>2, <1>a, <1>e DEF FreshInv, Sequential
  <2>3. CASE Miss(c) BY <1>4, <2>1, <2>3, <1>f, <1>h DEF ReadStore, Miss
  <2> QED BY <1>4, <2>2, <2>3 DEF ReadStore
<1>5. ASSUME NEW c \in Caller, Warm(c) PROVE FreshInv'
  <2>1. call[c].op = "can" BY <1>5 DEF OnlyCanReads, Reading, Warm
  <2>2. Elsewhere(c) BY <1>5, <2>1, <1>f DEF Warm, Hit
  <2>3. \A k \in Key : usage'[k] # None => usage'[k].seen >= floor[k]
    BY <1>5, <1>0, <1>a, <1>c, <1>d DEF Warm
  <2> QED BY <1>5, <2>2, <2>3, <1>a, <1>e, <1>g DEF Warm
<1>6. ASSUME NEW c \in Caller, FetchAnswered(c) PROVE FreshInv'
  <2>1. call[c].key \in Key BY <1>6, <1>c DEF FetchAnswered
  <2>2. held'[c].seen = Version(call[c].key) /\ pc'[c] = "set"
        /\ UNCHANGED <<call, api, usage, store, floor>>
    BY <1>6, <1>0 DEF FetchAnswered, Carry
  <2> QED BY <2>1, <2>2, <1>0, <1>a, <1>e DEF FreshInv, Sequential
<1>7. ASSUME NEW c \in Caller, FetchFailed(c) \/ PostFailed(c) PROVE FreshInv'
  BY <1>7, <1>f, <1>h DEF FetchFailed, PostFailed
<1>8. ASSUME NEW c \in Caller, SetUsage(c) PROVE FreshInv'
  <2>1. \A k \in Key : usage'[k] # None => usage'[k].seen >= floor[k]
    BY <1>8, <1>0, <1>a, <1>c, <1>d DEF SetUsage
  <2>2. pc'[c] = "persist" /\ UNCHANGED <<call, held, api, store, floor>>
    BY <1>8, <1>0 DEF SetUsage, Go
  <2>3. held[c].seen >= floor[call[c].key] BY <1>8, <1>b DEF SetUsage
  <2> QED BY <2>1, <2>2, <2>3, <1>a, <1>e DEF FreshInv, Sequential
<1>9. ASSUME NEW c \in Caller, PersistUsage(c) PROVE FreshInv'
  <2>1. \A k \in Key : store'[k] # None => store'[k].seen >= floor[k]
    BY <1>9, <1>0, <1>a, <1>c, <1>d DEF PersistUsage
  <2> QED BY <1>9, <2>1, <1>a, <1>e, <1>f, <1>g DEF PersistUsage
<1>10. ASSUME NEW c \in Caller, PostApplied(c) PROVE FreshInv'
  <2>1. PICK j \in Key : \E v : Counts(j, v) BY <1>10, <1>c DEF PostApplied
  <2>2. \A k \in Key : floor[k] <= Version(k)'
    BY <2>1, <1>0, <1>a, VersionGrows
  <2> QED BY <1>10, <2>2, <1>a, <1>f, <1>g DEF PostApplied
<1>11. ASSUME NEW c \in Caller, DropUsage(c) PROVE FreshInv'
  <2>1. \A k \in Key : usage'[k] # None => usage'[k] = usage[k] BY <1>11, <1>0 DEF DropUsage
  <2>2. pc'[c] = "dropStore" /\ usage'[call'[c].key] = None /\ UNCHANGED <<api, store, floor>>
    BY <1>11, <1>0, <1>c DEF DropUsage, Go
  <2> QED BY <2>1, <2>2, <1>a, <1>e DEF FreshInv, Sequential
<1>12. ASSUME NEW c \in Caller, DropStored(c) PROVE FreshInv'
  <2> DEFINE k == call[c].key
  <2>1. k \in Key /\ usage[k] = None BY <1>12, <1>b, <1>c DEF DropStored
  <2>2. CASE /\ store' = [store EXCEPT ![k] = None]
             /\ floor' = [floor EXCEPT ![k] = Version(k)]
    <3>1. \A j \in Key : store'[j] # None => store'[j] = store[j] /\ floor'[j] = floor[j]
      BY <2>1, <2>2, <1>0
    <3>2. \A j \in Key : usage[j] # None => floor'[j] = floor[j] BY <2>1, <2>2, <1>0
    <3>3. \A j \in Key : floor'[j] <= Version(j) BY <2>1, <2>2, <1>0, <1>a
    <3> QED BY <1>12, <3>1, <3>2, <3>3, <1>a, <1>e, <1>f, <1>g DEF DropStored
  <2>3. CASE UNCHANGED <<store, floor>> BY <1>12, <2>3, <1>f, <1>h DEF DropStored
  <2> QED BY <1>12, <2>2, <2>3 DEF DropStored
<1>13. ASSUME NEW c \in Caller, ClearStored(c) PROVE FreshInv'
  <2>1. CASE Go(c, "clearFailed") /\ UNCHANGED store
    BY <1>13, <2>1, <1>f, <1>h DEF ClearStored
  <2>2. CASE /\ store' = [k \in Key |-> IF k \in SameWorkspace(c) THEN None ELSE store[k]]
             /\ Go(c, "clearMemory")
    <3>1. pc'[c] = "clearMemory" /\ UNCHANGED <<call, api, usage, floor>>
      BY <1>13, <2>2, <1>0 DEF ClearStored, Go
    <3>2. \A k \in Key : store'[k] # None => store'[k] = store[k] BY <2>2
    <3>3. \A k \in SameWorkspace(c)' : store'[k] = None
      BY <2>2, <3>1 DEF SameWorkspace
    <3> QED BY <3>1, <3>2, <3>3, <1>a, <1>e DEF FreshInv, Sequential
  <2> QED BY <1>13, <2>1, <2>2 DEF ClearStored
<1>14. ASSUME NEW c \in Caller, ClearMemory(c) PROVE FreshInv'
  <2>1. \A k \in Key : usage'[k] # None => usage'[k] = usage[k] /\ floor'[k] = floor[k]
    BY <1>14, <1>0 DEF ClearMemory
  <2>2. \A k \in Key : store[k] # None => floor'[k] = floor[k]
    BY <1>14, <1>0, <1>b DEF ClearMemory
  <2>3. \A k \in Key : floor'[k] <= Version(k) BY <1>14, <1>0, <1>a DEF ClearMemory
  <2> QED BY <1>14, <2>1, <2>2, <2>3, <1>a, <1>e, <1>f, <1>g DEF ClearMemory
<1>15. CASE ExternalUse \/ Reset
  <2>1. PICK j \in Key : \E v : Counts(j, v) BY <1>15 DEF ExternalUse, Reset
  <2>2. \A k \in Key : floor[k] <= Version(k)' BY <2>1, <1>0, <1>a, VersionGrows
  <2>3. UNCHANGED <<usage, store, pc, call, held, floor>> BY <1>15 DEF ExternalUse, Reset
  <2> QED BY <2>2, <2>3, <1>a, <1>b DEF FreshInv, SameWorkspace
<1>16. CASE Tick
  <2>1. \A k \in Key : usage'[k] # None => usage[k] # None /\ usage'[k].seen = usage[k].seen
    <3> SUFFICES ASSUME NEW k \in Key, Aged(usage[k]) # None
                 PROVE  usage[k] # None /\ Aged(usage[k]).seen = usage[k].seen
      BY <1>16 DEF Tick
    <3> QED BY <1>0 DEF Aged, Entry
  <2>2. \A k \in Key : store'[k] # None => store[k] # None /\ store'[k].seen = store[k].seen
    <3> SUFFICES ASSUME NEW k \in Key, AgedInStore(store[k]) # None
                 PROVE  store[k] # None /\ AgedInStore(store[k]).seen = store[k].seen
      BY <1>16 DEF Tick
    <3> QED BY <1>0 DEF AgedInStore, Aged, Entry
  <2>3. \A c \in Caller : held[c] # None => held'[c].seen = held[c].seen
    BY <1>16, <1>0 DEF Tick, Count
  <2>4. \A c \in Caller : pc[c] \in {"warm", "set", "persist"} => held[c] # None
    BY DEF TypeInv, Located
  <2>5. UNCHANGED <<api, pc, call, floor>> BY <1>16 DEF Tick
  <2>6. \A k \in Key : (usage[k] = None => usage'[k] = None) /\ (store[k] = None => store'[k] = None)
    BY <1>16 DEF Tick, Aged, AgedInStore
  <2>7. \A c \in Caller : SameWorkspace(c)' = SameWorkspace(c)
                          /\ SameWorkspace(c) \subseteq Key BY <2>5 DEF SameWorkspace
  <2>8. ASSUME NEW c \in Caller
        PROVE  /\ pc'[c] \in {"warm", "set", "persist"} => held'[c].seen >= floor'[call'[c].key]
               /\ pc'[c] = "dropStore" => usage'[call'[c].key] = None
               /\ pc'[c] = "clearMemory" => \A k \in SameWorkspace(c)' : store'[k] = None
    <3>1. pc[c] = "dropStore" => call[c].key \in Key BY <1>c
    <3> QED BY <2>3, <2>4, <2>5, <2>6, <2>7, <3>1, <1>b
  <2> QED BY <2>1, <2>2, <2>5, <2>8, <1>a, <1>e DEF FreshInv
<1>17. CASE Restart BY <1>17, <1>a, <1>e DEF Restart, FreshInv
<1>18. CASE UNCHANGED vars BY <1>18, <1>a, <1>b, <1>e DEF vars, FreshInv, SameWorkspace
<1> QED
  BY <1>1, <1>2, <1>3, <1>4, <1>5, <1>6, <1>7, <1>8, <1>9, <1>10, <1>11, <1>12,
     <1>13, <1>14, <1>15, <1>16, <1>17, <1>18 DEF Next, Steps

\* When calls do not overlap, what RecordUsage or InvalidateWorkspace dropped
\* never comes back, whatever fails and whenever the process restarts.  (With
\* two callers it does: see FreshReads.)
THEOREM SequentialReadsAreFresh == ASSUME Sequential PROVE Spec => []FreshReads
<1>1. Init => TypeInv /\ OnlyCanReads /\ FreshInv
  <2>1. Init => TypeInv BY TypeInit
  <2> QED BY <2>1 DEF Init, OnlyCanReads, Reading, FreshInv, Version
<1>2. TypeInv /\ OnlyCanReads /\ FreshInv /\ [Next]_vars => (TypeInv /\ OnlyCanReads /\ FreshInv)'
  BY TypeStep, OnlyCanReadsStep, FreshStep
<1>3. FreshInv => FreshReads BY DEF FreshInv, FreshReads, Cached, Live
<1> QED BY <1>1, <1>2, <1>3, PTL DEF Spec
===============================================================================
