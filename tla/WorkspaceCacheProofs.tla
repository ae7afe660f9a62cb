------------------------- MODULE WorkspaceCacheProofs -------------------------
(***************************************************************************)
(* Theorems about WorkspaceCache, for every set of callers, workspaces and *)
(* slugs, every TTL and every number of faults.                            *)
(***************************************************************************)
EXTENDS WorkspaceCache, TLAPS

(* Where a caller stands says what it carries, and whether it has the lock. *)
Placed(c) ==
    /\ pc[c] # "idle" => call[c] # None
    /\ pc[c] \in {"name", "readName"} => call[c].of \in Name
    /\ pc[c] \notin {"idle", "name", "readName", "fetch"} => held[c] # None
    /\ pc[c] \in Naming \cup {"set"} => held[c].seen \in 1..Version(held[c].uuid)
    /\ pc[c] = "nameId" => held[c].uuid \in Numbered
    /\ pc[c] \in Naming \cup Unnaming => lock = c

CallersTyped ==
    /\ pc \in [Caller -> Location]
    /\ call \in [Caller -> Call \cup {None}]
    /\ held \in [Caller -> Record \cup {None}]
    /\ \A c \in Caller : Placed(c)

(* Every record is a version its workspace has had. *)
CacheTyped ==
    /\ memory \in [UUID -> Entry \cup {None}]
    /\ names \in [Name -> UUID \cup {None}]
    /\ stored \in [UUID -> Entry \cup {None}]
    /\ lookup \in [Name -> Pointer \cup {None}]
    /\ lock \in Caller \cup {Free}
    /\ faults \in Nat
    /\ \A u \in UUID : memory[u] # None => memory[u].seen \in 1..Version(u)
    /\ \A u \in UUID : stored[u] # None => stored[u].seen \in 1..Version(u)

TypeInv == Typed /\ CallersTyped /\ CacheTyped

-------------------------------------------------------------------------------
(* Lemmas on the operators *)

LEMMA NameType == \A u \in Numbered : Id(u) \in Name
BY DEF Name, Ids

LEMMA AgedEntry == ASSUME NEW e \in Entry \cup {None} PROVE
    /\ Aged(e) \in Entry \cup {None}
    /\ Aged(e) # None => e # None /\ Aged(e).seen = e.seen
    /\ e # None => Aged(e) # None
<1>1. CASE ~Live(e) BY <1>1 DEF Aged
<1>2. CASE Live(e)
  <2>1. e \in Entry /\ e.left - 1 \in -1..TTL
    BY <1>2, TTLAssumption DEF Live, Entry
  <2>2. Aged(e) = [e EXCEPT !.left = e.left - 1] BY <1>2 DEF Aged
  <2>3. Aged(e) \in Entry /\ Aged(e).seen = e.seen BY <2>1, <2>2 DEF Entry
  <2> QED BY <2>1, <2>3, NoneAssumption
<1> QED BY <1>1, <1>2

LEMMA AgedPointer == ASSUME NEW p \in Pointer \cup {None} PROVE
    /\ AgedInStore(p) \in Pointer \cup {None}
    /\ AgedInStore(p) # None =>
          p # None /\ AgedInStore(p).uuid = p.uuid /\ AgedInStore(p).seen = p.seen
<1>1. CASE ~Live(p) BY <1>1 DEF Aged, AgedInStore
<1>2. CASE Live(p)
  <2>1. p \in Pointer /\ p.left - 1 \in -1..TTL
    BY <1>2, TTLAssumption DEF Live, Pointer
  <2>2. Aged(p) = [p EXCEPT !.left = p.left - 1] BY <1>2 DEF Aged
  <2>3. Aged(p) \in Pointer /\ Aged(p).uuid = p.uuid /\ Aged(p).seen = p.seen
    BY <2>1, <2>2 DEF Pointer
  <2> QED BY <2>1, <2>3, NoneAssumption DEF AgedInStore
<1> QED BY <1>1, <1>2

LEMMA RecordType ==
    ASSUME NEW u \in UUID, NEW n \in Nat, NEW f \in {"name", "store", "api"}
    PROVE  /\ [uuid |-> u, seen |-> n, from |-> f] \in Record
           /\ [uuid |-> u, seen |-> n, from |-> f] # None
BY NoneAssumption DEF Record

LEMMA CurrentVersion ==
    ASSUME TypeInv, NEW u \in UUID
    PROVE  Version(u) \in Nat /\ Version(u) \in 1..Version(u)
BY DEF TypeInv, Typed, Version

-------------------------------------------------------------------------------
(* Types *)

LEMMA TypeInit == Init => TypeInv
<1> SUFFICES ASSUME Init PROVE TypeInv OBVIOUS
<1>1. /\ api \in [UUID -> Seq(Slug)]
      /\ \A u \in UUID : Version(u) > 0
  <2>1. PICK first \in [UUID -> Slug] : api = [u \in UUID |-> <<first[u]>>] BY DEF Init
  <2>2. \A u \in UUID : api[u] \in Seq(Slug) /\ Len(api[u]) = 1 BY <2>1
  <2> QED BY <2>1, <2>2 DEF Version
<1> QED
  BY <1>1 DEF Init, TypeInv, Typed, CallersTyped, CacheTyped, Placed, Location,
              Naming, Unnaming

\* The callers' variables stay typed when one of them moves on within its call,
\* takes up a record, or returns, and the others keep their places.
Elsewhere(c) ==
    /\ UNCHANGED api
    /\ \A d \in Caller \ {c} : pc[d] \in Naming \cup Unnaming => lock' = lock

LEMMA GoTyped ==
    ASSUME TypeInv, NEW c \in Caller, NEW l \in Location, Go(c, l), Elsewhere(c),
           call[c] # None, l \notin {"name"},
           l = "readName" => call[c].of \in Name,
           l \notin {"idle", "name", "readName", "fetch"} => held[c] # None,
           l \in Naming \cup {"set"} => held[c].seen \in 1..Version(held[c].uuid),
           l = "nameId" => held[c].uuid \in Numbered,
           l \in Naming \cup Unnaming => lock' = c
    PROVE  CallersTyped'
<1>1. pc' \in [Caller -> Location] /\ UNCHANGED <<call, held>> /\ pc'[c] = l
      /\ \A d \in Caller \ {c} : pc'[d] = pc[d]
  BY DEF Go, TypeInv, Typed
<1>2. Placed(c)' BY <1>1 DEF Placed, Elsewhere, Version
<1>3. ASSUME NEW d \in Caller, d # c PROVE Placed(d)'
  BY <1>1, <1>3 DEF Placed, Elsewhere, Version, TypeInv, CallersTyped
<1> QED BY <1>1, <1>2, <1>3 DEF CallersTyped, TypeInv, Typed

LEMMA CarryTyped ==
    ASSUME TypeInv, NEW c \in Caller, NEW l \in {"peek", "set", "fetch"},
           NEW r \in Record \cup {None}, Carry(c, l, r), Elsewhere(c),
           call[c] # None,
           l # "fetch" => r # None,
           l = "set" => r.seen \in 1..Version(r.uuid)
    PROVE  CallersTyped'
<1>1. /\ pc' \in [Caller -> Location] /\ pc'[c] = l
      /\ held' \in [Caller -> Record \cup {None}] /\ held'[c] = r
      /\ UNCHANGED call
      /\ \A d \in Caller \ {c} : pc'[d] = pc[d] /\ held'[d] = held[d]
  BY DEF Carry, TypeInv, Typed, Location
<1>2. Placed(c)' BY <1>1 DEF Placed, Elsewhere, Version, Naming, Unnaming
<1>3. ASSUME NEW d \in Caller, d # c PROVE Placed(d)'
  BY <1>1, <1>3 DEF Placed, Elsewhere, Version, TypeInv, CallersTyped
<1> QED BY <1>1, <1>2, <1>3 DEF CallersTyped, TypeInv, Typed

LEMMA ReturnTyped ==
    ASSUME TypeInv, NEW c \in Caller, Return(c), Elsewhere(c)
    PROVE  CallersTyped'
<1>1. /\ pc' \in [Caller -> Location] /\ pc'[c] = "idle"
      /\ held' \in [Caller -> Record \cup {None}]
      /\ call' \in [Caller -> Call \cup {None}]
      /\ \A d \in Caller \ {c} :
            pc'[d] = pc[d] /\ held'[d] = held[d] /\ call'[d] = call[d]
  BY DEF Return, TypeInv, Typed, Location
<1>2. Placed(c)' BY <1>1 DEF Placed, Naming, Unnaming
<1>3. ASSUME NEW d \in Caller, d # c PROVE Placed(d)'
  BY <1>1, <1>3 DEF Placed, Elsewhere, Version, TypeInv, CallersTyped
<1> QED BY <1>1, <1>2, <1>3 DEF CallersTyped

LEMMA FailTyped ==
    ASSUME TypeInv, NEW c \in Caller, call[c] # None, Fail(c), Elsewhere(c)
    PROVE  CallersTyped'
<1>1. CASE call[c].op # "host" BY <1>1, ReturnTyped DEF Fail
<1>2. CASE call[c].op = "host"
  <2> DEFINE m == [call[c] EXCEPT !.op = "domain"]
  <2>0. call[c] \in Call BY <1>2 DEF TypeInv, Typed
  <2>1. m \in Call /\ m # None
    BY <2>0, <1>2, NoneAssumption DEF Call
  <2>2. /\ pc' = [pc EXCEPT ![c] = "fetch"] /\ call' = [call EXCEPT ![c] = m]
        /\ held' = [held EXCEPT ![c] = None]
    BY <1>2 DEF Fail
  <2> HIDE DEF m
  <2>3. /\ pc' \in [Caller -> Location] /\ pc'[c] = "fetch"
        /\ held' \in [Caller -> Record \cup {None}]
        /\ call' \in [Caller -> Call \cup {None}] /\ call'[c] # None
        /\ \A d \in Caller \ {c} :
              pc'[d] = pc[d] /\ held'[d] = held[d] /\ call'[d] = call[d]
    BY <2>1, <2>2 DEF TypeInv, Typed, Location
  <2>4. Placed(c)' BY <2>3 DEF Placed, Naming, Unnaming
  <2>5. ASSUME NEW d \in Caller, d # c PROVE Placed(d)'
    BY <2>3, <2>5 DEF Placed, Elsewhere, Version, TypeInv, CallersTyped
  <2> QED BY <2>3, <2>4, <2>5 DEF CallersTyped
<1> QED BY <1>1, <1>2

\* A SetWorkspace that stops at a store error frees the lock it holds.
LEMMA RefuseTyped ==
    ASSUME TypeInv, NEW c \in Caller, call[c] # None, held[c] # None, Refuse(c),
           UNCHANGED api, lock \in {Free, c}
    PROVE  CallersTyped' /\ lock' = Free /\ faults' \in Nat
<1>1. Elsewhere(c)
  BY FreeAssumption DEF Elsewhere, Refuse, TypeInv, CallersTyped, Placed
<1>2. CallersTyped'
  <2>1. CASE held[c].from = "store" BY <1>1, <2>1, CarryTyped DEF Refuse
  <2>2. CASE held[c].from # "store" BY <1>1, <2>2, FailTyped DEF Refuse
  <2> QED BY <2>1, <2>2
<1> QED BY <1>2 DEF Refuse, Fault, TypeInv, Typed

LEMMA AtPlace ==
    ASSUME TypeInv, NEW c \in Caller, pc[c] # "idle"
    PROVE  /\ call[c] # None /\ call[c] \in Call
           /\ pc[c] \notin {"name", "readName", "fetch"} =>
                 held[c] # None /\ held[c] \in Record /\ held[c].uuid \in UUID
BY DEF TypeInv, Typed, CallersTyped, Placed, Record

LEMMA TypeStep == TypeInv /\ [Next]_vars => TypeInv'
<1> SUFFICES ASSUME TypeInv, [Next]_vars PROVE TypeInv' OBVIOUS
<1> USE DEF cache
<1>0. CallersTyped' /\ CacheTyped' /\ UNCHANGED api /\ floor' \in [UUID -> Nat] => TypeInv'
  BY DEF TypeInv, Typed, CallersTyped, CacheTyped, Version
<1>1. CallersTyped' /\ UNCHANGED <<api, cache, floor>> => TypeInv'
  BY <1>0 DEF TypeInv, Typed, CacheTyped, Version
<1>2. CallersTyped' /\ faults' \in Nat
        /\ UNCHANGED <<api, memory, names, stored, lookup, lock, floor>> => TypeInv'
  BY <1>0 DEF TypeInv, Typed, CacheTyped, Version
<1>3. ASSUME NEW c \in Caller, Starts(c) PROVE TypeInv'
  <2>1. PICK m \in Call, r \in Record \cup {None}, l \in {"name", "fetch", "peek", "drop"} :
            /\ pc[c] = "idle"
            /\ pc' = [pc EXCEPT ![c] = l]
            /\ call' = [call EXCEPT ![c] = m]
            /\ held' = [held EXCEPT ![c] = r]
            /\ m # None
            /\ l = "name" => m.of \in Name
            /\ l \notin {"name", "fetch"} => r # None
            /\ UNCHANGED <<api, cache, floor>>
    <3>1. CASE StartByUUID(c) \/ StartInvalidate(c)
      <4>1. PICK op \in {"uuid", "invalidate"}, u \in UUID, l \in {"peek", "drop"} :
                Begin(c, op, u, Named(u), l)
        BY <3>1 DEF StartByUUID, StartInvalidate
      <4>2. Named(u) \in Record /\ Named(u) # None BY RecordType DEF Named
      <4>3. [op |-> op, of |-> u] \in Call /\ [op |-> op, of |-> u] # None
        BY NoneAssumption DEF Call
      <4> QED BY <4>1, <4>2, <4>3 DEF Begin
    <3>2. CASE StartByName(c) \/ StartByHost(c)
      <4>1. PICK op \in {"name", "host", "domain"}, a \in Name, l \in {"name", "fetch"} :
                Begin(c, op, a, None, l)
        BY <3>2 DEF StartByName, StartByHost, Name
      <4> DEFINE m == [op |-> op, of |-> a]
      <4>2. m \in Call /\ m # None /\ m.of \in Name
        BY NoneAssumption DEF Call
      <4>3. call' = [call EXCEPT ![c] = m] BY <4>1 DEF Begin
      <4> HIDE DEF m
      <4> QED BY <4>1, <4>2, <4>3 DEF Begin
    <3> QED BY <1>3, <3>1, <3>2 DEF Starts
  <2>2. /\ pc' \in [Caller -> Location] /\ pc'[c] = l
        /\ held' \in [Caller -> Record \cup {None}] /\ held'[c] = r
        /\ call' \in [Caller -> Call \cup {None}] /\ call'[c] = m
        /\ \A d \in Caller \ {c} :
              pc'[d] = pc[d] /\ held'[d] = held[d] /\ call'[d] = call[d]
    BY <2>1 DEF TypeInv, Typed, Location
  <2>3. Placed(c)' BY <2>1, <2>2 DEF Placed, Naming, Unnaming
  <2>4. ASSUME NEW d \in Caller, d # c PROVE Placed(d)'
    BY <2>1, <2>2, <2>4 DEF Placed, Version, TypeInv, CallersTyped
  <2> QED BY <2>1, <2>2, <2>3, <2>4, <1>1 DEF CallersTyped
<1>4. ASSUME NEW c \in Caller, LookUp(c) PROVE TypeInv'
  <2>1. pc[c] = "name" /\ call[c] # None /\ call[c].of \in Name /\ Elsewhere(c)
    BY <1>4, AtPlace DEF LookUp, TypeInv, CallersTyped, Placed, Elsewhere
  <2>2. names[call[c].of] \in UUID \cup {None} BY <2>1 DEF TypeInv, Typed
  <2>3. CASE Go(c, "readName")
    BY <1>1, <1>4, <2>1, <2>3, GoTyped DEF LookUp, Location, Naming, Unnaming
  <2>4. CASE names[call[c].of] # None
    <3>1. Carry(c, "peek", Named(names[call[c].of])) BY <1>4, <2>4 DEF LookUp
    <3>2. Named(names[call[c].of]) \in Record /\ Named(names[call[c].of]) # None
      BY <2>2, <2>4, RecordType DEF Named
    <3> QED BY <1>1, <1>4, <2>1, <3>1, <3>2, CarryTyped DEF LookUp
  <2> QED BY <1>4, <2>3, <2>4 DEF LookUp
<1>5. ASSUME NEW c \in Caller, ReadName(c) PROVE TypeInv'
  <2>1. pc[c] = "readName" /\ call[c] # None /\ call[c].of \in Name /\ Elsewhere(c)
    BY <1>5, AtPlace DEF ReadName, TypeInv, CallersTyped, Placed, Elsewhere
  <2> DEFINE p == lookup[call[c].of]
  <2>2. p \in Pointer \cup {None} BY <2>1 DEF TypeInv, Typed
  <2>3. faults' \in Nat BY <1>5 DEF ReadName, Fault, TypeInv, Typed
  <2>4. CASE Go(c, "fetch")
    BY <1>2, <1>5, <2>1, <2>3, <2>4, GoTyped DEF ReadName, Location, Naming, Unnaming
  <2>5. CASE Live(p) /\ Carry(c, "peek", Named(p.uuid))
    <3>1. p.uuid \in UUID BY <2>2, <2>5 DEF Live, Pointer
    <3>2. Named(p.uuid) \in Record /\ Named(p.uuid) # None
      BY <3>1, RecordType DEF Named
    <3> QED BY <1>2, <1>5, <2>1, <2>3, <2>5, <3>2, CarryTyped DEF ReadName
  <2> QED BY <1>5, <2>4, <2>5 DEF ReadName
<1>6. ASSUME NEW c \in Caller, Peek(c) PROVE TypeInv'
  <2>1. pc[c] = "peek" /\ call[c] # None /\ held[c] # None /\ Elsewhere(c)
    BY <1>6, AtPlace DEF Peek, Elsewhere
  <2>2. CASE Go(c, "read") \/ Go(c, "evict")
    BY <1>1, <1>6, <2>1, <2>2, GoTyped DEF Peek, Location, Naming, Unnaming
  <2>3. CASE Return(c) BY <1>1, <1>6, <2>1, <2>3, ReturnTyped DEF Peek
  <2> QED BY <1>6, <2>2, <2>3 DEF Peek
<1>7. ASSUME NEW c \in Caller, Evict(c) PROVE TypeInv'
  <2>1. pc[c] = "evict" /\ call[c] # None /\ held[c] # None /\ Elsewhere(c)
    BY <1>7, AtPlace DEF Evict, Elsewhere
  <2>2. CallersTyped' BY <1>7, <2>1, GoTyped DEF Evict, Location, Naming, Unnaming
  <2> QED BY <1>0, <1>7, <2>2 DEF Evict, TypeInv, Typed, CacheTyped, Version
<1>8. ASSUME NEW c \in Caller, ReadStored(c) PROVE TypeInv'
  <2>1. /\ pc[c] = "read" /\ call[c] # None /\ held[c] # None /\ Elsewhere(c)
        /\ held[c].uuid \in UUID
    BY <1>8, AtPlace DEF ReadStored, Elsewhere
  <2> DEFINE u == held[c].uuid
             e == stored[u]
             r == [uuid |-> u, seen |-> e.seen, from |-> "store"]
  <2>2. faults' \in Nat BY <1>8 DEF ReadStored, Fault, TypeInv, Typed
  <2>3. CASE Carry(c, "fetch", None)
    BY <1>2, <1>8, <2>1, <2>2, <2>3, CarryTyped DEF ReadStored
  <2>4. CASE Live(e) /\ Carry(c, "set", r)
    <3>1. e # None BY <2>4 DEF Live
    <3>2. e.seen \in 1..Version(u) BY <2>1, <3>1 DEF TypeInv, CacheTyped
    <3>3. e.seen \in Nat BY <2>1, <3>2, CurrentVersion
    <3>4. r \in Record /\ r # None BY <2>1, <3>3, RecordType
    <3>5. r.uuid = u /\ r.seen = e.seen OBVIOUS
    <3> HIDE DEF r
    <3> QED BY <1>2, <1>8, <2>1, <2>2, <2>4, <3>2, <3>4, <3>5, CarryTyped DEF ReadStored
  <2> QED BY <1>8, <2>3, <2>4 DEF ReadStored
<1>9. ASSUME NEW c \in Caller, Fetch(c) PROVE TypeInv'
  <2>1. pc[c] = "fetch" /\ call[c] # None /\ Elsewhere(c)
    BY <1>9, AtPlace DEF Fetch, Elsewhere
  <2>2. CASE Fail(c) BY <1>1, <1>9, <2>1, <2>2, FailTyped DEF Fetch
  <2>3. ASSUME NEW u \in UUID, Carry(c, "set", Current(u)) PROVE TypeInv'
    <3>1. Version(u) \in Nat /\ Version(u) \in 1..Version(u) BY CurrentVersion
    <3>2. Current(u) \in Record /\ Current(u) # None BY <3>1, RecordType DEF Current
    <3>3. Current(u).uuid = u /\ Current(u).seen = Version(u) BY DEF Current
    <3> QED BY <1>1, <1>9, <2>1, <2>3, <3>1, <3>2, <3>3, CarryTyped DEF Fetch
  <2> QED BY <1>9, <2>2, <2>3 DEF Fetch
<1>10. ASSUME NEW c \in Caller, Forget(c) PROVE TypeInv'
  <2>1. /\ pc[c] = "set" /\ call[c] # None /\ held[c] # None
        /\ lock \in {Free, c}
    BY <1>10, AtPlace DEF Forget
  <2>2. /\ names' \in [Name -> UUID \cup {None}]
        /\ lookup' \in [Name -> Pointer \cup {None}]
    BY <1>10 DEF Forget, Known, TypeInv, Typed
  <2>3. CASE lock' = c /\ UNCHANGED <<pc, call, held, faults>>
    <3>1. \A d \in Caller : Placed(d)'
      BY <1>10, <2>1, <2>3, FreeAssumption
      DEF Forget, Placed, Version, TypeInv, CallersTyped, Naming, Unnaming
    <3> QED BY <1>0, <1>10, <2>2, <2>3, <3>1
            DEF Forget, TypeInv, Typed, CallersTyped, CacheTyped, Version
  <2>4. CASE Refuse(c)
    <3>1. CallersTyped' /\ lock' = Free /\ faults' \in Nat
      BY <1>10, <2>1, <2>4, RefuseTyped DEF Forget
    <3> QED BY <1>0, <1>10, <2>2, <3>1 DEF Forget, TypeInv, Typed, CacheTyped, Version
  <2> QED BY <1>10, <2>3, <2>4 DEF Forget
<1>11. ASSUME NEW c \in Caller, Remember(c) PROVE TypeInv'
  <2> DEFINE u == held[c].uuid
             e == [seen |-> held[c].seen, left |-> TTL]
             l == IF u \in Numbered THEN "nameId" ELSE "nameSlug"
  <2>1. /\ pc[c] = "set" /\ call[c] # None /\ held[c] # None
        /\ u \in UUID /\ held[c].seen \in 1..Version(u)
        /\ lock \in {Free, c} /\ lock' = c
    BY <1>11, AtPlace DEF Remember, TypeInv, CallersTyped, Placed
  <2>2. e \in Entry /\ e.seen \in 1..Version(u)
    BY <2>1, CurrentVersion, TTLAssumption DEF Entry
  <2>3. memory' = [memory EXCEPT ![u] = e] BY <1>11 DEF Remember
  <2>4. Elsewhere(c)
    BY <1>11, <2>1, FreeAssumption DEF Remember, Elsewhere, TypeInv, CallersTyped, Placed
  <2>5. Go(c, l) BY <1>11 DEF Remember
  <2>6. CallersTyped'
    BY <2>1, <2>4, <2>5, GoTyped DEF Location, Naming, Unnaming
  <2> HIDE DEF e
  <2> QED BY <1>0, <1>11, <2>1, <2>2, <2>3, <2>6
          DEF Remember, TypeInv, Typed, CacheTyped, Version
<1>12. ASSUME NEW c \in Caller, PointId(c) \/ PointSlug(c) PROVE TypeInv'
  <2> DEFINE u == held[c].uuid
             p == [uuid |-> u, seen |-> held[c].seen, left |-> TTL]
  <2>1. /\ pc[c] \in {"nameId", "nameSlug"} /\ call[c] # None /\ held[c] # None
        /\ u \in UUID /\ held[c].seen \in 1..Version(u) /\ lock = c
    BY <1>12, AtPlace DEF PointId, PointSlug, TypeInv, CallersTyped, Placed, Naming
  <2>2. PICK a \in Name, l \in {"nameSlug", "persist"} : Point(c, a, l)
    <3>1. CASE PointId(c)
      <4>1. Id(u) \in Name
        BY <3>1, NameType DEF PointId, TypeInv, CallersTyped, Placed
      <4> QED BY <3>1, <4>1 DEF PointId
    <3>2. CASE PointSlug(c)
      <4>1. api[u][held[c].seen] \in Name BY <2>1 DEF TypeInv, Typed, Version, Name
      <4> QED BY <3>2, <4>1 DEF PointSlug
    <3> QED BY <1>12, <3>1, <3>2
  <2>3. p \in Pointer BY <2>1, CurrentVersion, TTLAssumption DEF Pointer
  <2>4. /\ names' \in [Name -> UUID \cup {None}]
        /\ lookup' \in [Name -> Pointer \cup {None}]
    <3>1. lookup' = [lookup EXCEPT ![a] = p] \/ UNCHANGED lookup BY <2>2 DEF Point
    <3> HIDE DEF p
    <3> QED BY <2>1, <2>2, <2>3, <3>1 DEF Point, TypeInv, Typed
  <2>5. CallersTyped' /\ lock' \in {Free, c} /\ faults' \in Nat
    <3>1. CASE Go(c, l) /\ UNCHANGED <<lock, faults>>
      <4>1. Elsewhere(c) BY <2>2, <3>1 DEF Point, Elsewhere
      <4>2. CallersTyped'
        BY <2>1, <3>1, <4>1, GoTyped DEF Location, Naming, Unnaming
      <4> QED BY <2>1, <3>1, <4>2 DEF TypeInv, Typed
    <3>2. CASE Refuse(c) BY <2>1, <2>2, <3>2, RefuseTyped DEF Point
    <3> QED BY <2>2, <3>1, <3>2 DEF Point
  <2> QED BY <1>0, <2>2, <2>4, <2>5 DEF Point, TypeInv, Typed, CacheTyped, Version
<1>13. ASSUME NEW c \in Caller, Persist(c) PROVE TypeInv'
  <2> DEFINE u == held[c].uuid
             e == [seen |-> held[c].seen, left |-> TTL]
  <2>1. /\ pc[c] = "persist" /\ call[c] # None /\ held[c] # None
        /\ u \in UUID /\ held[c].seen \in 1..Version(u) /\ lock = c
    BY <1>13, AtPlace DEF Persist, TypeInv, CallersTyped, Placed, Naming
  <2>2. e \in Entry /\ e.seen \in 1..Version(u)
    BY <2>1, CurrentVersion, TTLAssumption DEF Entry
  <2>3. CASE stored' = [stored EXCEPT ![u] = e] /\ lock' = Free /\ Return(c)
    <3>1. Elsewhere(c)
      BY <1>13, <2>1, <2>3 DEF Persist, Elsewhere, TypeInv, CallersTyped, Placed
    <3>2. CallersTyped' BY <2>3, <3>1, ReturnTyped
    <3>3. faults' \in Nat BY <1>13 DEF Persist, Refuse, Fault, TypeInv, Typed
    <3> HIDE DEF e
    <3> QED BY <1>0, <1>13, <2>1, <2>2, <2>3, <3>2, <3>3
            DEF Persist, TypeInv, Typed, CacheTyped, Version
  <2>4. CASE Refuse(c) /\ UNCHANGED stored
    <3>1. CallersTyped' /\ lock' = Free /\ faults' \in Nat
      BY <1>13, <2>1, <2>4, RefuseTyped DEF Persist
    <3> QED BY <1>0, <1>13, <2>4, <3>1 DEF Persist, TypeInv, Typed, CacheTyped, Version
  <2> QED BY <1>13, <2>3, <2>4 DEF Persist
<1>14. ASSUME NEW c \in Caller, Drop(c) PROVE TypeInv'
  <2>1. /\ pc[c] \in {"drop", "dropAgain"} /\ call[c] # None /\ held[c] # None
        /\ lock = Free /\ lock' = c
    BY <1>14, AtPlace DEF Drop
  <2>2. Elsewhere(c)
    BY <1>14, <2>1, FreeAssumption DEF Drop, Elsewhere, TypeInv, CallersTyped, Placed
  <2>3. PICK l \in Unnaming : Go(c, l) BY <1>14 DEF Drop, Unnaming
  <2>4. CallersTyped'
    BY <2>1, <2>2, <2>3, GoTyped DEF Location, Naming, Unnaming
  <2>5. faults' \in Nat BY <1>14 DEF Drop, Fault, TypeInv, Typed
  <2>6. stored' = stored \/ stored' = [stored EXCEPT ![held[c].uuid] = None]
    BY <1>14 DEF Drop
  <2> QED BY <1>0, <1>14, <2>1, <2>4, <2>5, <2>6
          DEF Drop, TypeInv, Typed, CacheTyped, Version
<1>15. ASSUME NEW c \in Caller, Unname(c) PROVE TypeInv'
  <2>1. pc[c] \in Unnaming /\ call[c] # None /\ held[c] # None /\ lock = c
    BY <1>15, AtPlace DEF Unname, Unnaming, TypeInv, CallersTyped, Placed
  <2>2. /\ names' \in [Name -> UUID \cup {None}]
        /\ lookup' \in [Name -> Pointer \cup {None}]
    BY <1>15 DEF Unname, Known, TypeInv, Typed
  <2>3. CallersTyped' /\ faults' \in Nat
    <3>1. CASE UNCHANGED <<pc, call, held, faults>>
      BY <1>15, <3>1 DEF Unname, TypeInv, Typed, CallersTyped, Placed, Version
    <3>2. CASE Fault /\ Go(c, IF pc[c] = "unname" THEN "unname" ELSE "unnameFailed")
      <4>1. Elsewhere(c) BY <1>15 DEF Unname, Elsewhere
      <4>2. lock' = c BY <1>15, <2>1 DEF Unname
      <4>3. CallersTyped'
        BY <2>1, <3>2, <4>1, <4>2, GoTyped DEF Location, Naming, Unnaming
      <4> QED BY <3>2, <4>3 DEF Fault, TypeInv, Typed
    <3> QED BY <1>15, <3>1, <3>2 DEF Unname
  <2> QED BY <1>0, <1>15, <2>2, <2>3 DEF Unname, TypeInv, Typed, CacheTyped, Version
<1>16. ASSUME NEW c \in Caller, Dropped(c) PROVE TypeInv'
  <2>1. /\ pc[c] \in Unnaming /\ call[c] # None /\ held[c] # None /\ lock = c
        /\ held[c].uuid \in UUID
    BY <1>16, AtPlace DEF Dropped, Unnaming, TypeInv, CallersTyped, Placed
  <2>2. Elsewhere(c)
    BY <1>16, <2>1 DEF Dropped, Elsewhere, TypeInv, CallersTyped, Placed
  <2>3. CallersTyped'
    <3>1. CASE Go(c, "dropAgain")
      BY <2>1, <2>2, <3>1, GoTyped DEF Location, Naming, Unnaming
    <3>2. CASE Return(c) BY <2>2, <3>2, ReturnTyped
    <3> QED BY <1>16, <3>1, <3>2 DEF Dropped
  <2>4. floor' \in [UUID -> Nat]
    BY <1>16, <2>1, CurrentVersion DEF Dropped, TypeInv, Typed
  <2> QED BY <1>0, <1>16, <2>3, <2>4 DEF Dropped, TypeInv, Typed, CacheTyped, Version
<1>17. CASE Rename
  <2>1. PICK u \in UUID, s \in Slug : api' = [api EXCEPT ![u] = Append(@, s)]
    BY <1>17 DEF Rename
  <2>2. /\ api' \in [UUID -> Seq(Slug)]
        /\ \A v \in UUID : Version(v)' \in Nat /\ Version(v)' >= Version(v)
    BY <2>1 DEF TypeInv, Typed, Version
  <2>3. ASSUME NEW v \in UUID, NEW n \in 1..Version(v) PROVE n \in 1..Version(v)'
    BY <2>2, CurrentVersion
  <2>4. CacheTyped' BY <1>17, <2>3 DEF Rename, TypeInv, CacheTyped
  <2>5. ASSUME NEW c \in Caller PROVE Placed(c)'
    <3>1. CASE pc[c] \in Naming \cup {"set"}
      <4>1. held[c].uuid \in UUID BY <3>1, AtPlace DEF Naming
      <4> QED BY <1>17, <2>3, <3>1, <4>1 DEF Rename, TypeInv, CallersTyped, Placed
    <3>2. CASE pc[c] \notin Naming \cup {"set"}
      BY <1>17, <3>2 DEF Rename, TypeInv, CallersTyped, Placed
    <3> QED BY <3>1, <3>2
  <2>6. \A v \in UUID : Version(v)' > 0 BY <2>2, CurrentVersion DEF TypeInv, Typed
  <2> QED BY <1>17, <2>2, <2>4, <2>5, <2>6
          DEF Rename, TypeInv, Typed, CallersTyped, CacheTyped
<1>18. CASE Tick
  <2>1. /\ memory' \in [UUID -> Entry \cup {None}]
        /\ \A u \in UUID : memory'[u] # None =>
              memory[u] # None /\ memory'[u].seen = memory[u].seen
    BY <1>18, AgedEntry DEF Tick, TypeInv, Typed
  <2>2. /\ stored' \in [UUID -> Entry \cup {None}]
        /\ \A u \in UUID : stored'[u] # None =>
              stored[u] # None /\ stored'[u].seen = stored[u].seen
    BY <1>18, AgedEntry DEF Tick, AgedInStore, TypeInv, Typed
  <2>3. lookup' \in [Name -> Pointer \cup {None}]
    BY <1>18, AgedPointer DEF Tick, TypeInv, Typed
  <2>4. CallersTyped' BY <1>18 DEF Tick, TypeInv, CallersTyped, Placed, Version
  <2> QED BY <1>0, <1>18, <2>1, <2>2, <2>3, <2>4
          DEF Tick, TypeInv, Typed, CacheTyped, Version
<1>19. CASE Restart
  <2>1. CallersTyped'
    BY <1>19 DEF Restart, CallersTyped, Placed, Location, Naming, Unnaming
  <2> QED BY <1>0, <1>19, <2>1 DEF Restart, Fault, TypeInv, Typed, CacheTyped, Version
<1>20. CASE UNCHANGED vars
  BY <1>20 DEF vars, TypeInv, Typed, CallersTyped, CacheTyped, Placed, Version
<1> QED
  BY <1>3, <1>4, <1>5, <1>6, <1>7, <1>8, <1>9, <1>10, <1>11, <1>12, <1>13, <1>14,
     <1>15, <1>16, <1>17, <1>18, <1>19, <1>20 DEF Next, Steps

LEMMA TypeAlways == Spec => []TypeInv
<1> QED BY TypeInit, TypeStep, PTL DEF Spec

\* A locked section is entered with the lock free, and left with it.
LEMMA ExclusiveStep == TypeInv /\ Exclusive /\ [Next]_vars => Exclusive'
<1> SUFFICES ASSUME TypeInv, Exclusive, [Next]_vars PROVE Exclusive' OBVIOUS
<1> USE FreeAssumption DEF Exclusive, Naming, Unnaming, TypeInv, Typed, cache
<1>1. ASSUME NEW c \in Caller, Starts(c) PROVE Exclusive'
  BY <1>1 DEF Starts, StartByUUID, StartByName, StartByHost, StartInvalidate, Begin
<1>2. ASSUME NEW c \in Caller, LookUp(c) \/ ReadName(c) \/ Peek(c) \/ Evict(c)
      PROVE  Exclusive'
  BY <1>2 DEF LookUp, ReadName, Peek, Evict, Go, Carry, Return
<1>3. ASSUME NEW c \in Caller, ReadStored(c) PROVE Exclusive'
  BY <1>3 DEF ReadStored, Carry
<1>4. ASSUME NEW c \in Caller, Fetch(c) PROVE Exclusive'
  BY <1>4 DEF Fetch, Carry, Fail, Return
<1>5. ASSUME NEW c \in Caller, Refuse(c), pc[c] \in Naming \cup {"set"}, lock \in {Free, c}
      PROVE  Exclusive'
  BY <1>5 DEF Refuse, Fail, Carry, Return
<1>6. ASSUME NEW c \in Caller, Forget(c) PROVE Exclusive'
  BY <1>6, <1>5 DEF Forget
<1>7. ASSUME NEW c \in Caller, Remember(c) PROVE Exclusive'
  BY <1>7 DEF Remember, Go
<1>8. ASSUME NEW c \in Caller, PointId(c) \/ PointSlug(c) PROVE Exclusive'
  BY <1>8, <1>5 DEF PointId, PointSlug, Point, Go
<1>9. ASSUME NEW c \in Caller, Persist(c) PROVE Exclusive'
  BY <1>9, <1>5 DEF Persist, Return
<1>10. ASSUME NEW c \in Caller, Drop(c) \/ Unname(c) \/ Dropped(c) PROVE Exclusive'
  BY <1>10 DEF Drop, Unname, Dropped, Go, Return
<1>11. CASE Rename \/ Tick \/ Restart BY <1>11 DEF Rename, Tick, Restart
<1>12. CASE UNCHANGED vars BY <1>12 DEF vars
<1> QED
  BY <1>1, <1>2, <1>3, <1>4, <1>6, <1>7, <1>8, <1>9, <1>10, <1>11, <1>12
  DEF Next, Steps

\* The variables keep their types, and a locked section its lock; nothing in memory, in the store or in a
\* caller's hands is mistaken for a record, a pointer or a lock holder.
THEOREM TypeCorrect == Spec => []TypeOK
<1>1. Init => Exclusive BY FreeAssumption DEF Init, Exclusive, Naming, Unnaming
<1>2. TypeInv /\ Exclusive => TypeOK BY DEF TypeOK, TypeInv
<1> QED BY <1>1, <1>2, TypeInit, TypeStep, ExclusiveStep, PTL DEF Spec

-------------------------------------------------------------------------------
(* Names in memory agree with the records they lead to *)

(* A caller that is pointing names to a record has put that record in memory. *)
Remembered ==
    \A c \in Caller :
        pc[c] \in Naming =>
            LET e == memory[held[c].uuid] IN e # None /\ e.seen = held[c].seen

NameInv == NamesAgree /\ Remembered

\* What a record carries is settled once the version exists.
LEMMA CarriesKept ==
    ASSUME TypeInv, Rename, NEW u \in UUID, NEW n \in 1..Version(u), NEW a,
           Carries(u, n, a)
    PROVE  Carries(u, n, a)'
<1>1. PICK v \in UUID, s \in Slug : api' = [api EXCEPT ![v] = Append(@, s)]
  BY DEF Rename
<1>2. api'[u][n] = api[u][n] BY <1>1 DEF TypeInv, Typed, Version
<1> QED BY <1>2 DEF Carries

LEMMA NameInit == Init => NameInv
BY DEF Init, NameInv, NamesAgree, Remembered, Naming

LEMMA NameStep == TypeInv /\ NameInv /\ [Next]_vars => NameInv'
<1> SUFFICES ASSUME TypeInv, NameInv, [Next]_vars PROVE NameInv' OBVIOUS
<1> USE DEF cache
\* Names are only lost and records only dropped, by a caller who names nothing.
<1>1. ASSUME UNCHANGED api,
             \A a \in Name : names'[a] # None => names'[a] = names[a],
             \A u \in UUID : memory'[u] # None =>
                memory[u] # None /\ memory'[u].seen = memory[u].seen
      PROVE  NamesAgree'
  BY <1>1 DEF NameInv, NamesAgree, Carries, TypeInv, CacheTyped
<1>2. ASSUME NEW c \in Caller,
             pc'[c] \notin Naming,
             \A d \in Caller \ {c} : pc'[d] = pc[d] /\ held'[d] = held[d],
             \A d \in Caller \ {c} : pc[d] \in Naming =>
                LET u == held[d].uuid
                IN  memory'[u] # None /\ memory'[u].seen = memory[u].seen
      PROVE  Remembered'
  BY <1>2 DEF NameInv, Remembered
\* While one caller has the lock or nobody has, no other one names anything.
<1>3. ASSUME NEW c \in Caller, lock \in {Free, c}, NEW d \in Caller \ {c}
      PROVE  pc[d] \notin Naming
  BY <1>3, FreeAssumption DEF TypeInv, CallersTyped, Placed
<1>4. ASSUME NEW c \in Caller,
             \/ Starts(c) \/ LookUp(c) \/ ReadName(c) \/ Peek(c)
             \/ ReadStored(c) \/ Fetch(c)
      PROVE  NameInv'
  <2>1. /\ UNCHANGED <<api, memory, names>>
        /\ pc'[c] \notin Naming
        /\ \A d \in Caller \ {c} : pc'[d] = pc[d] /\ held'[d] = held[d]
    BY <1>4
    DEF Starts, StartByUUID, StartByName, StartByHost, StartInvalidate, Begin,
        LookUp, ReadName, Peek, ReadStored, Fetch, Go, Carry, Return, Fail,
        Naming, TypeInv, Typed
  <2> QED BY <1>1, <1>2, <2>1 DEF NameInv, Remembered
<1>5. ASSUME NEW c \in Caller, Refuse(c), lock \in {Free, c}, UNCHANGED <<api, memory>>,
             pc[c] # "idle"
      PROVE  Remembered'
  <2>1. /\ pc'[c] \notin Naming
        /\ \A d \in Caller \ {c} : pc'[d] = pc[d] /\ held'[d] = held[d]
    BY <1>5 DEF Refuse, Fail, Carry, Return, Naming, TypeInv, Typed
  <2> QED BY <1>2, <1>3, <1>5, <2>1
<1>6. ASSUME NEW c \in Caller, Evict(c) PROVE NameInv'
  <2>1. /\ pc'[c] \notin Naming
        /\ \A d \in Caller \ {c} : pc'[d] = pc[d] /\ held'[d] = held[d]
    BY <1>6 DEF Evict, Go, Naming, TypeInv, Typed
  <2>2. Remembered' BY <1>2, <1>3, <1>6, <2>1 DEF Evict
  <2>3. NamesAgree' BY <1>1, <1>6 DEF Evict, TypeInv, Typed
  <2> QED BY <2>2, <2>3 DEF NameInv
<1>7. ASSUME NEW c \in Caller, Forget(c) PROVE NameInv'
  <2>1. pc[c] = "set" /\ lock \in {Free, c} /\ UNCHANGED <<api, memory>>
    BY <1>7 DEF Forget
  <2>2. \A a \in Name : names'[a] # None => names'[a] = names[a]
    BY <1>7 DEF Forget, TypeInv, Typed
  <2>3. NamesAgree' BY <1>1, <2>1, <2>2
  <2>4. CASE UNCHANGED <<pc, held>> BY <2>1, <2>3, <2>4 DEF NameInv, Remembered
  <2>5. CASE Refuse(c) BY <1>5, <2>1, <2>3, <2>5 DEF NameInv
  <2> QED BY <1>7, <2>4, <2>5 DEF Forget
<1>8. ASSUME NEW c \in Caller, Remember(c) PROVE NameInv'
  <2> DEFINE u == held[c].uuid
             e == [seen |-> held[c].seen, left |-> TTL]
  <2>1. /\ pc[c] = "set" /\ lock \in {Free, c} /\ u \in UUID
        /\ held[c].seen \in Nat
    BY <1>8, AtPlace DEF Remember, Record
  <2>2. /\ memory' = [memory EXCEPT ![u] = e]
        /\ Known(u) = {}
        /\ UNCHANGED <<api, names, held>>
        /\ \A d \in Caller \ {c} : pc'[d] = pc[d]
    BY <1>8 DEF Remember, Go, TypeInv, Typed
  <2>3. e # None /\ e.seen = held[c].seen
    BY <2>1, TTLAssumption, NoneAssumption DEF Entry
  <2>4. \A a \in Name : names[a] # u BY <2>2 DEF Known
  <2> HIDE DEF e
  <2>5. memory'[u] = e /\ \A v \in UUID \ {u} : memory'[v] = memory[v]
    BY <2>1, <2>2 DEF TypeInv, Typed
  <2>6. NamesAgree'
    BY <2>2, <2>4, <2>5 DEF NameInv, NamesAgree, Carries, TypeInv, Typed
  <2>7. Remembered'
    BY <1>3, <2>1, <2>2, <2>3, <2>5 DEF Remembered
  <2> QED BY <2>6, <2>7 DEF NameInv
<1>9. ASSUME NEW c \in Caller, NEW a \in Name, NEW l \in {"nameSlug", "persist"},
             pc[c] \in Naming, Carries(held[c].uuid, held[c].seen, a), Point(c, a, l)
      PROVE  NameInv'
  <2> DEFINE u == held[c].uuid
  <2>1. /\ lock = c /\ u \in UUID /\ UNCHANGED <<api, memory>>
        /\ names' = [names EXCEPT ![a] = u]
    BY <1>9, AtPlace DEF Point, Naming, TypeInv, CallersTyped, Placed
  <2>2. memory[u] # None /\ memory[u].seen = held[c].seen
    BY <1>9 DEF NameInv, Remembered
  <2>3. NamesAgree'
    BY <1>9, <2>1, <2>2 DEF NameInv, NamesAgree, Carries, TypeInv, Typed
  <2>4. CASE Go(c, l)
    BY <1>9, <2>1, <2>3, <2>4 DEF Go, NameInv, Remembered, TypeInv, Typed
  <2>5. CASE Refuse(c) BY <1>5, <1>9, <2>1, <2>3, <2>5 DEF NameInv, Naming
  <2> QED BY <1>9, <2>4, <2>5 DEF Point
<1>10. ASSUME NEW c \in Caller, PointId(c) PROVE NameInv'
  <2>1. pc[c] = "nameId" /\ held[c].uuid \in Numbered
    BY <1>10 DEF PointId, TypeInv, CallersTyped, Placed
  <2> QED BY <1>9, <1>10, <2>1, NameType DEF PointId, Naming, Carries
<1>11. ASSUME NEW c \in Caller, PointSlug(c) PROVE NameInv'
  <2>1. /\ pc[c] = "nameSlug" /\ held[c].uuid \in UUID
        /\ held[c].seen \in 1..Version(held[c].uuid)
    BY <1>11, AtPlace DEF PointSlug, Naming, TypeInv, CallersTyped, Placed
  <2>2. api[held[c].uuid][held[c].seen] \in Name
    BY <2>1 DEF TypeInv, Typed, Version, Name
  <2> QED BY <1>9, <1>11, <2>1, <2>2 DEF PointSlug, Naming, Carries
<1>12. ASSUME NEW c \in Caller, Persist(c) PROVE NameInv'
  <2>1. pc[c] = "persist" /\ lock = c /\ UNCHANGED <<api, memory, names>>
    BY <1>12 DEF Persist, Naming, TypeInv, CallersTyped, Placed
  <2>2. NamesAgree' BY <1>1, <2>1
  <2>3. CASE Return(c)
    <3>1. /\ pc'[c] \notin Naming
          /\ \A d \in Caller \ {c} : pc'[d] = pc[d] /\ held'[d] = held[d]
      BY <2>3 DEF Return, Naming, TypeInv, Typed
    <3> QED BY <1>2, <1>3, <2>1, <2>2, <3>1 DEF NameInv
  <2>4. CASE Refuse(c) BY <1>5, <2>1, <2>2, <2>4 DEF NameInv
  <2> QED BY <1>12, <2>3, <2>4 DEF Persist
<1>13. ASSUME NEW c \in Caller, Drop(c) PROVE NameInv'
  <2>1. /\ pc'[c] \notin Naming
        /\ \A d \in Caller \ {c} : pc'[d] = pc[d] /\ held'[d] = held[d]
    BY <1>13 DEF Drop, Go, Naming, TypeInv, Typed
  <2>2. Remembered' BY <1>2, <1>3, <1>13, <2>1 DEF Drop
  <2>3. NamesAgree' BY <1>1, <1>13 DEF Drop, TypeInv, Typed
  <2> QED BY <2>2, <2>3 DEF NameInv
<1>14. ASSUME NEW c \in Caller, Unname(c) \/ Dropped(c) PROVE NameInv'
  <2>1. /\ pc'[c] \notin Naming
        /\ \A d \in Caller \ {c} : pc'[d] = pc[d] /\ held'[d] = held[d]
        /\ lock = c /\ UNCHANGED <<api, memory>>
    BY <1>14
    DEF Unname, Dropped, Go, Return, Naming, Unnaming, TypeInv, Typed, CallersTyped, Placed
  <2>2. \A a \in Name : names'[a] # None => names'[a] = names[a]
    BY <1>14 DEF Unname, Dropped, TypeInv, Typed
  <2> QED BY <1>1, <1>2, <1>3, <2>1, <2>2 DEF NameInv
<1>15. CASE Rename
  <2>1. UNCHANGED <<memory, names, pc, held>> BY <1>15 DEF Rename
  <2>2. ASSUME NEW a \in Name, names[a] # None, memory[names[a]] # None
        PROVE  Carries(names[a], memory[names[a]].seen, a)'
    <3>1. /\ names[a] \in UUID
          /\ memory[names[a]].seen \in 1..Version(names[a])
          /\ Carries(names[a], memory[names[a]].seen, a)
      BY <2>2 DEF NameInv, NamesAgree, TypeInv, CacheTyped
    <3> QED BY <1>15, <2>1, <3>1, CarriesKept DEF Carries
  <2> QED BY <2>1, <2>2 DEF NameInv, NamesAgree, Remembered
<1>16. CASE Tick
  <2>1. \A u \in UUID :
           /\ memory'[u] # None => memory[u] # None /\ memory'[u].seen = memory[u].seen
           /\ memory[u] # None => memory'[u] # None
    BY <1>16, AgedEntry DEF Tick, TypeInv, Typed
  <2>2. \A c \in Caller : pc[c] \in Naming => held[c].uuid \in UUID
    BY AtPlace DEF Naming
  <2>3. Remembered' BY <1>16, <2>1, <2>2 DEF Tick, NameInv, Remembered
  <2> QED BY <1>1, <1>16, <2>1, <2>3 DEF Tick, NameInv
<1>17. CASE Restart
  BY <1>17 DEF Restart, NameInv, NamesAgree, Remembered, Naming
<1>18. CASE UNCHANGED vars
  BY <1>18 DEF vars, NameInv, NamesAgree, Remembered, Carries
<1> QED
  BY <1>4, <1>6, <1>7, <1>8, <1>10, <1>11, <1>12, <1>13, <1>14, <1>15, <1>16,
     <1>17, <1>18 DEF Next, Steps

\* A name in memory leads to a record that carries it, whatever the number of
\* goroutines, of renamed workspaces and of store errors in SetWorkspace.
THEOREM NamesLeadHome == Spec => []NamesAgree
<1>1. Init /\ [][Next]_vars => []NameInv
  BY NameInit, NameStep, TypeAlways, PTL DEF Spec
<1>2. NameInv => NamesAgree BY DEF NameInv
<1> QED BY <1>1, <1>2, PTL DEF Spec

-------------------------------------------------------------------------------
(* What an undisturbed invalidation dropped does not come back *)

(* No caller carries a record from before the last such drop, and one that is *)
(* about to report a drop has left nothing of the workspace.                  *)
FloorInv ==
    /\ \A u \in UUID : floor[u] <= Version(u)
    /\ DroppedStaysGone
    /\ \A c \in Caller :
          /\ pc[c] \in Naming \cup {"set"} => held[c].seen >= floor[held[c].uuid]
          /\ pc[c] = "unnameAgain" =>
                memory[held[c].uuid] = None /\ stored[held[c].uuid] = None

LEMMA FloorInit == Init => FloorInv
<1> SUFFICES ASSUME Init PROVE FloorInv OBVIOUS
<1>1. \A u \in UUID : Version(u) >= 0 BY TypeInit, CurrentVersion
<1> QED BY <1>1 DEF Init, FloorInv, DroppedStaysGone, Naming

LEMMA FloorStep == TypeInv /\ FloorInv /\ [Next]_vars => FloorInv'
<1> SUFFICES ASSUME TypeInv, FloorInv, [Next]_vars PROVE FloorInv' OBVIOUS
<1> USE DEF cache
\* One caller moves; what the others rely on stays as it is.
<1>1. ASSUME UNCHANGED <<api, floor>>, NEW c \in Caller,
             \A d \in Caller \ {c} : pc'[d] = pc[d] /\ held'[d] = held[d],
             DroppedStaysGone',
             pc'[c] \in Naming \cup {"set"} =>
                held'[c].seen >= floor[held'[c].uuid],
             \A d \in Caller : pc'[d] = "unnameAgain" =>
                memory'[held'[d].uuid] = None /\ stored'[held'[d].uuid] = None
      PROVE  FloorInv'
  BY <1>1 DEF FloorInv, Version
\* While one caller has the lock or nobody has, no other one is reporting.
<1>2. ASSUME NEW c \in Caller, lock \in {Free, c}, NEW d \in Caller \ {c}
      PROVE  pc[d] \notin Naming \cup Unnaming
  BY <1>2, FreeAssumption DEF TypeInv, CallersTyped, Placed
<1>3. ASSUME NEW c \in Caller, pc[c] \in Naming \cup {"set"}
      PROVE  held[c].uuid \in UUID /\ held[c].seen >= floor[held[c].uuid]
  BY <1>3, AtPlace DEF FloorInv, Naming
<1>4. ASSUME NEW c \in Caller,
             UNCHANGED <<api, floor, memory, stored>>,
             \A d \in Caller \ {c} : pc'[d] = pc[d] /\ held'[d] = held[d],
             pc'[c] \notin Naming \cup {"set", "unnameAgain"}
      PROVE  FloorInv'
  <2>1. DroppedStaysGone' BY <1>4 DEF FloorInv, DroppedStaysGone
  <2> QED BY <1>1, <1>4, <2>1 DEF FloorInv
<1>5. ASSUME NEW c \in Caller,
             Starts(c) \/ LookUp(c) \/ ReadName(c) \/ Peek(c)
      PROVE  FloorInv'
  <2>1. CASE Starts(c)
    BY <1>4, <2>1
    DEF Starts, StartByUUID, StartByName, StartByHost, StartInvalidate, Begin, Naming, TypeInv, Typed
  <2>2. CASE LookUp(c) BY <1>4, <2>2 DEF LookUp, Go, Carry, Return, Naming, TypeInv, Typed
  <2>3. CASE ReadName(c) BY <1>4, <2>3 DEF ReadName, Go, Carry, Return, Naming, TypeInv, Typed
  <2>4. CASE Peek(c) BY <1>4, <2>4 DEF Peek, Go, Carry, Return, Naming, TypeInv, Typed
  <2> QED BY <1>5, <2>1, <2>2, <2>3, <2>4
<1>6. ASSUME NEW c \in Caller, Evict(c) PROVE FloorInv'
  <2>1. /\ UNCHANGED <<api, floor, stored>>
        /\ pc'[c] = "read"
        /\ \A d \in Caller \ {c} : pc'[d] = pc[d] /\ held'[d] = held[d]
        /\ memory' = [memory EXCEPT ![held[c].uuid] = None]
    BY <1>6 DEF Evict, Go, TypeInv, Typed
  <2>2. DroppedStaysGone' BY <2>1 DEF FloorInv, DroppedStaysGone, TypeInv, Typed
  <2>3. \A d \in Caller : pc'[d] # "unnameAgain"
    BY <1>2, <1>6, <2>1 DEF Evict, Unnaming
  <2>4. pc'[c] \notin Naming \cup {"set"} BY <2>1 DEF Naming
  <2> QED BY <1>1, <2>1, <2>2, <2>3, <2>4
<1>7. ASSUME NEW c \in Caller, ReadStored(c) PROVE FloorInv'
  <2>1. /\ pc[c] = "read" /\ held[c].uuid \in UUID
        /\ UNCHANGED <<api, floor, memory, stored>>
        /\ \A d \in Caller \ {c} : pc'[d] = pc[d] /\ held'[d] = held[d]
    BY <1>7, AtPlace DEF ReadStored, Carry, TypeInv, Typed
  <2> DEFINE u == held[c].uuid
             e == stored[u]
  <2>2. CASE Carry(c, "fetch", None)
    BY <1>4, <2>1, <2>2 DEF Carry, Naming, TypeInv, Typed
  <2>3. CASE Live(e) /\ Carry(c, "set", [uuid |-> u, seen |-> e.seen, from |-> "store"])
    <3>1. e.seen >= floor[u] BY <2>1, <2>3 DEF Live, FloorInv, DroppedStaysGone
    <3>2. pc'[c] = "set" /\ held'[c].seen = e.seen /\ held'[c].uuid = u
      BY <2>3 DEF Carry, TypeInv, Typed
    <3>3. DroppedStaysGone' BY <2>1 DEF FloorInv, DroppedStaysGone
    <3>4. \A d \in Caller : pc'[d] = "unnameAgain" =>
             memory'[held'[d].uuid] = None /\ stored'[held'[d].uuid] = None
      BY <2>1, <3>2 DEF FloorInv
    <3>5. held'[c].seen >= floor[held'[c].uuid] BY <3>1, <3>2
    <3> HIDE DEF u, e
    <3> QED BY <1>1, <2>1, <3>3, <3>4, <3>5
  <2> QED BY <1>7, <2>2, <2>3 DEF ReadStored
<1>8. ASSUME NEW c \in Caller, Fetch(c) PROVE FloorInv'
  <2>1. /\ UNCHANGED <<api, floor, memory, stored>>
        /\ \A d \in Caller \ {c} : pc'[d] = pc[d] /\ held'[d] = held[d]
    BY <1>8 DEF Fetch, Carry, Fail, Return, TypeInv, Typed
  <2>2. CASE Fail(c)
    BY <1>4, <2>1, <2>2 DEF Fail, Return, Naming, TypeInv, Typed
  <2>3. ASSUME NEW u \in UUID, Carry(c, "set", Current(u)) PROVE FloorInv'
    <3>1. pc'[c] = "set" /\ held'[c].seen = Version(u) /\ held'[c].uuid = u
      BY <2>3 DEF Carry, Current, TypeInv, Typed
    <3>2. DroppedStaysGone' BY <2>1 DEF FloorInv, DroppedStaysGone
    <3>3. Version(u) >= floor[u] BY CurrentVersion DEF FloorInv, TypeInv, Typed
    <3> QED BY <1>1, <2>1, <3>1, <3>2, <3>3 DEF FloorInv
  <2> QED BY <1>8, <2>2, <2>3 DEF Fetch
<1>9. ASSUME NEW c \in Caller, Refuse(c), UNCHANGED <<api, floor, memory, stored>>
      PROVE  FloorInv'
  BY <1>4, <1>9 DEF Refuse, Fail, Carry, Return, Naming, TypeInv, Typed
<1>10. ASSUME NEW c \in Caller, Forget(c) PROVE FloorInv'
  <2>1. UNCHANGED <<api, floor, memory, stored>> BY <1>10 DEF Forget
  <2>2. CASE UNCHANGED <<pc, held>>
    BY <2>1, <2>2 DEF FloorInv, DroppedStaysGone, Version
  <2>3. CASE Refuse(c) BY <1>9, <2>1, <2>3
  <2> QED BY <1>10, <2>2, <2>3 DEF Forget
<1>11. ASSUME NEW c \in Caller, Remember(c) PROVE FloorInv'
  <2> DEFINE u == held[c].uuid
             e == [seen |-> held[c].seen, left |-> TTL]
  <2>1. /\ pc[c] = "set" /\ lock \in {Free, c} /\ u \in UUID
        /\ held[c].seen >= floor[u]
    BY <1>3, <1>11 DEF Remember
  <2>2. /\ UNCHANGED <<api, floor, stored, held>>
        /\ pc'[c] \in Naming
        /\ \A d \in Caller \ {c} : pc'[d] = pc[d]
        /\ memory' = [memory EXCEPT ![u] = e]
    BY <1>11 DEF Remember, Go, Naming, TypeInv, Typed
  <2>3. e.seen = held[c].seen OBVIOUS
  <2> HIDE DEF e
  <2>4. DroppedStaysGone'
    BY <2>1, <2>2, <2>3 DEF FloorInv, DroppedStaysGone, TypeInv, Typed
  <2>5. \A d \in Caller : pc'[d] # "unnameAgain"
    BY <1>2, <2>1, <2>2 DEF Naming, Unnaming
  <2>6. held'[c].seen >= floor[held'[c].uuid] BY <2>1, <2>2
  <2>7. \A d \in Caller \ {c} : pc'[d] = pc[d] /\ held'[d] = held[d] BY <2>2
  <2> HIDE DEF u
  <2> QED BY <1>1, <2>2, <2>4, <2>5, <2>6, <2>7
<1>12. ASSUME NEW c \in Caller, PointId(c) \/ PointSlug(c) PROVE FloorInv'
  <2>0. PICK l \in {"nameSlug", "persist"} :
            pc[c] \in Naming /\ \E a : Point(c, a, l)
    BY <1>12 DEF PointId, PointSlug, Naming
  <2>1. PICK a : pc[c] \in Naming /\ Point(c, a, l) BY <2>0
  <2>2. UNCHANGED <<api, floor, memory, stored>> BY <2>1 DEF Point
  <2>3. CASE Go(c, l)
    <3>1. /\ pc'[c] = l /\ UNCHANGED held
          /\ \A d \in Caller \ {c} : pc'[d] = pc[d]
      BY <2>3 DEF Go, TypeInv, Typed
    <3>2. DroppedStaysGone' BY <2>2 DEF FloorInv, DroppedStaysGone
    <3> QED BY <1>1, <1>3, <2>1, <2>2, <3>1, <3>2 DEF FloorInv
  <2>4. CASE Refuse(c) BY <1>9, <2>2, <2>4
  <2> QED BY <2>1, <2>3, <2>4 DEF Point
<1>13. ASSUME NEW c \in Caller, Persist(c) PROVE FloorInv'
  <2> DEFINE u == held[c].uuid
             e == [seen |-> held[c].seen, left |-> TTL]
  <2>1. CASE Refuse(c) /\ UNCHANGED stored BY <1>9, <1>13, <2>1 DEF Persist
  <2>2. CASE Return(c) /\ stored' = [stored EXCEPT ![u] = e]
    <3>1. /\ pc[c] = "persist" /\ lock = c /\ u \in UUID
          /\ held[c].seen >= floor[u]
      BY <1>3, <1>13 DEF Persist, Naming, TypeInv, CallersTyped, Placed
    <3>2. /\ UNCHANGED <<api, floor, memory>>
          /\ pc'[c] = "idle"
          /\ \A d \in Caller \ {c} : pc'[d] = pc[d] /\ held'[d] = held[d]
      BY <1>13, <2>2 DEF Persist, Return, TypeInv, Typed
    <3>3. e.seen = held[c].seen OBVIOUS
    <3> HIDE DEF e
    <3>4. DroppedStaysGone'
      BY <2>2, <3>1, <3>2, <3>3 DEF FloorInv, DroppedStaysGone, TypeInv, Typed
    <3>5. \A d \in Caller : pc'[d] # "unnameAgain"
      BY <1>2, <3>1, <3>2 DEF Unnaming
    <3> QED BY <1>1, <3>2, <3>4, <3>5 DEF Naming
  <2> QED BY <1>13, <2>1, <2>2 DEF Persist
<1>14. ASSUME NEW c \in Caller, Drop(c) PROVE FloorInv'
  <2> DEFINE u == held[c].uuid
             gone == [stored EXCEPT ![u] = None]
  <2>1. /\ pc[c] \in {"drop", "dropAgain"} /\ lock = Free /\ u \in UUID
        /\ UNCHANGED <<api, floor, held>>
        /\ memory' = [memory EXCEPT ![u] = None]
        /\ stored' \in {stored, gone}
        /\ \A d \in Caller \ {c} : pc'[d] = pc[d]
        /\ pc'[c] \in Unnaming
        /\ pc'[c] = "unnameAgain" => stored' = gone
    BY <1>14, AtPlace DEF Drop, Go, Unnaming, TypeInv, Typed
  <2>2. DroppedStaysGone' BY <2>1 DEF FloorInv, DroppedStaysGone, TypeInv, Typed
  <2>3. \A d \in Caller : pc'[d] = "unnameAgain" => d = c
    BY <1>2, <2>1 DEF Unnaming
  <2>4. pc'[c] = "unnameAgain" => memory'[u] = None /\ stored'[u] = None
    BY <2>1 DEF TypeInv, Typed
  <2> QED BY <1>1, <2>1, <2>2, <2>3, <2>4 DEF Naming, Unnaming
<1>15. ASSUME NEW c \in Caller, Unname(c) PROVE FloorInv'
  <2>1. /\ UNCHANGED <<api, floor, memory, stored, held>>
        /\ pc[c] \in Unnaming
        /\ \A d \in Caller \ {c} : pc'[d] = pc[d]
        /\ pc'[c] = pc[c] \/ pc'[c] = "unnameFailed"
    BY <1>15 DEF Unname, Go, Unnaming, TypeInv, Typed
  <2>2. DroppedStaysGone' BY <2>1 DEF FloorInv, DroppedStaysGone
  <2> QED BY <1>1, <2>1, <2>2 DEF FloorInv, Naming, Unnaming
<1>16. ASSUME NEW c \in Caller, Dropped(c) PROVE FloorInv'
  <2> DEFINE u == held[c].uuid
  <2>1. /\ pc[c] \in Unnaming /\ lock = c /\ u \in UUID
        /\ UNCHANGED <<api, memory, stored>>
        /\ pc'[c] \in {"dropAgain", "idle"}
        /\ \A d \in Caller \ {c} : pc'[d] = pc[d] /\ held'[d] = held[d]
    BY <1>16, AtPlace
    DEF Dropped, Go, Return, Unnaming, TypeInv, Typed, CallersTyped, Placed
  <2>2. CASE UNCHANGED floor BY <1>4, <2>1, <2>2 DEF Naming
  <2>3. CASE /\ pc[c] = "unnameAgain" /\ Undisturbed(c)
             /\ floor' = [floor EXCEPT ![u] = Version(u)]
    <3>1. \A d \in Caller : pc'[d] \notin Naming \cup {"set", "unnameAgain"}
      BY <2>1, <2>3 DEF Undisturbed, Naming
    <3>2. memory[u] = None /\ stored[u] = None BY <2>3 DEF FloorInv
    <3>3. DroppedStaysGone'
      BY <2>1, <2>3, <3>2 DEF FloorInv, DroppedStaysGone, TypeInv, Typed
    <3>4. \A v \in UUID : floor'[v] <= Version(v)'
      BY <2>1, <2>3, CurrentVersion DEF FloorInv, Version, TypeInv, Typed
    <3> QED BY <3>1, <3>3, <3>4 DEF FloorInv
  <2> QED BY <1>16, <2>2, <2>3 DEF Dropped
<1>17. CASE Rename
  <2>1. \A u \in UUID : Version(u)' >= Version(u)
    <3>1. PICK w \in UUID, s \in Slug : api' = [api EXCEPT ![w] = Append(@, s)]
      BY <1>17 DEF Rename
    <3> QED BY <3>1 DEF TypeInv, Typed, Version
  <2>2. \A u \in UUID : floor[u] \in Nat /\ Version(u) \in Nat /\ Version(u)' \in Nat
    <3>1. api' \in [UUID -> Seq(Slug)]
      <4>1. PICK w \in UUID, s \in Slug : api' = [api EXCEPT ![w] = Append(@, s)]
        BY <1>17 DEF Rename
      <4> QED BY <4>1 DEF TypeInv, Typed
    <3> QED BY <3>1, CurrentVersion DEF Version, TypeInv, Typed
  <2> QED BY <1>17, <2>1, <2>2 DEF Rename, FloorInv, DroppedStaysGone
<1>18. CASE Tick
  <2>1. \A u \in UUID :
           /\ memory'[u] # None => memory[u] # None /\ memory'[u].seen = memory[u].seen
           /\ stored'[u] # None => stored[u] # None /\ stored'[u].seen = stored[u].seen
    BY <1>18, AgedEntry DEF Tick, AgedInStore, TypeInv, Typed
  <2>2. DroppedStaysGone' BY <1>18, <2>1 DEF Tick, FloorInv, DroppedStaysGone
  <2>3. \A c \in Caller : pc[c] = "unnameAgain" => held[c].uuid \in UUID
    BY AtPlace
  <2> QED BY <1>18, <2>1, <2>2, <2>3 DEF Tick, FloorInv, Version
<1>19. CASE Restart
  BY <1>19 DEF Restart, FloorInv, DroppedStaysGone, Version, Naming
<1>20. CASE UNCHANGED vars
  BY <1>20 DEF vars, FloorInv, DroppedStaysGone, Version
<1> QED
  BY <1>5, <1>6, <1>7, <1>8, <1>10, <1>11, <1>12, <1>13, <1>14, <1>15, <1>16,
     <1>17, <1>18, <1>19, <1>20 DEF Next, Steps

\* Once an invalidation has succeeded with no other call under way, no record
\* from before it is in memory or in the store, whatever failed earlier, however
\* often the process crashed and whatever other goroutines do from then on.
THEOREM InvalidationIsFinal == Spec => []DroppedStaysGone
<1>1. Init /\ [][Next]_vars => []FloorInv
  BY FloorInit, FloorStep, TypeAlways, PTL DEF Spec
<1>2. FloorInv => DroppedStaysGone BY DEF FloorInv
<1> QED BY <1>1, <1>2, PTL DEF Spec

-------------------------------------------------------------------------------
(* While nothing fails, an invalidation takes the names along *)

(* Memory then knows every name in the store, so none can be left behind. *)
MirrorInv ==
    faults = 0 =>
        \A a \in Name : lookup[a] # None =>
            /\ names[a] = lookup[a].uuid
            /\ lookup[a].seen >= floor[lookup[a].uuid]

LEMMA MirrorStep == TypeInv /\ FloorInv /\ MirrorInv /\ [Next]_vars => MirrorInv'
<1> SUFFICES ASSUME TypeInv, FloorInv, MirrorInv, [Next]_vars, faults' = 0
             PROVE  \A a \in Name : lookup'[a] # None =>
                       /\ names'[a] = lookup'[a].uuid
                       /\ lookup'[a].seen >= floor'[lookup'[a].uuid]
  BY DEF MirrorInv
<1> USE DEF cache
<1>1. ~Fault BY DEF Fault, TypeInv, Typed
<1>2. CASE UNCHANGED <<names, lookup, faults, floor>> BY <1>2 DEF MirrorInv
<1>3. ASSUME NEW c \in Caller,
             \/ Starts(c) \/ LookUp(c) \/ ReadName(c) \/ Peek(c) \/ Evict(c)
             \/ ReadStored(c) \/ Fetch(c) \/ Remember(c) \/ Persist(c) \/ Drop(c)
      PROVE  UNCHANGED <<names, lookup, faults, floor>>
  BY <1>1, <1>3
  DEF Starts, StartByUUID, StartByName, StartByHost, StartInvalidate, Begin,
      LookUp, ReadName, Peek, Evict, ReadStored, Fetch, Remember, Persist, Drop, Refuse
<1>4. ASSUME NEW c \in Caller, Forget(c) \/ Unname(c)
      PROVE  \A a \in Name : lookup'[a] # None =>
                       /\ names'[a] = lookup'[a].uuid
                       /\ lookup'[a].seen >= floor'[lookup'[a].uuid]
  <2>1. PICK b \in Name :
            /\ names' = [names EXCEPT ![b] = None]
            /\ lookup' = [lookup EXCEPT ![b] = None]
            /\ UNCHANGED <<faults, floor>>
    BY <1>1, <1>4 DEF Forget, Unname, Known, Refuse
  <2> QED BY <2>1 DEF MirrorInv, TypeInv, Typed
<1>5. ASSUME NEW c \in Caller, PointId(c) \/ PointSlug(c)
      PROVE  \A a \in Name : lookup'[a] # None =>
                       /\ names'[a] = lookup'[a].uuid
                       /\ lookup'[a].seen >= floor'[lookup'[a].uuid]
  <2> DEFINE u == held[c].uuid
             p == [uuid |-> u, seen |-> held[c].seen, left |-> TTL]
  <2>1. PICK b :
            /\ pc[c] \in Naming
            /\ names' = [names EXCEPT ![b] = u]
            /\ lookup' = [lookup EXCEPT ![b] = p]
            /\ UNCHANGED <<faults, floor>>
    BY <1>1, <1>5 DEF PointId, PointSlug, Point, Refuse, Naming
  <2>2. held[c].seen >= floor[u] BY <2>1 DEF FloorInv
  <2>3. p.uuid = u /\ p.seen = held[c].seen OBVIOUS
  <2> HIDE DEF p
  <2> QED BY <2>1, <2>2, <2>3 DEF MirrorInv, TypeInv, Typed
<1>6. ASSUME NEW c \in Caller, Dropped(c)
      PROVE  \A a \in Name : lookup'[a] # None =>
                       /\ names'[a] = lookup'[a].uuid
                       /\ lookup'[a].seen >= floor'[lookup'[a].uuid]
  <2> DEFINE u == held[c].uuid
  <2>1. /\ UNCHANGED <<names, lookup, faults>>
        /\ \A a \in Name : names[a] # u
        /\ floor' = floor \/ floor' = [floor EXCEPT ![u] = Version(u)]
    BY <1>6 DEF Dropped, Known
  <2>2. ASSUME NEW a \in Name, lookup[a] # None
        PROVE  names[a] = lookup[a].uuid /\ floor'[lookup[a].uuid] = floor[lookup[a].uuid]
    <3>1. names[a] = lookup[a].uuid BY <2>1, <2>2 DEF MirrorInv
    <3>2. lookup[a].uuid # u BY <2>1, <3>1
    <3>3. lookup[a] \in Pointer /\ lookup[a].uuid \in UUID
      BY <2>2 DEF TypeInv, Typed, Pointer
    <3>4. floor \in [UUID -> Nat] BY DEF TypeInv, Typed
    <3> QED BY <2>1, <3>1, <3>2, <3>3, <3>4
  <2> QED BY <2>1, <2>2 DEF MirrorInv
<1>7. CASE Tick
  <2>1. \A a \in Name : lookup'[a] # None =>
           /\ lookup[a] # None
           /\ lookup'[a].uuid = lookup[a].uuid /\ lookup'[a].seen = lookup[a].seen
    BY <1>7, AgedPointer DEF Tick, TypeInv, Typed
  <2> QED BY <1>7, <2>1 DEF Tick, MirrorInv
<1>8. CASE Rename \/ UNCHANGED vars BY <1>2, <1>8 DEF Rename, vars
<1>9. ~Restart BY <1>1 DEF Restart
<1> QED
  BY <1>2, <1>3, <1>4, <1>5, <1>6, <1>7, <1>8, <1>9 DEF Next, Steps

\* As long as no store call has failed and the process has not crashed, no name
\* a workspace had before an invalidation leads to it any more.
THEOREM NamesGoWithTheRecord == Spec => []NamesDropped
<1>1. Init => MirrorInv BY DEF Init, MirrorInv
<1>2. Init /\ [][Next]_vars => [](FloorInv /\ MirrorInv)
  BY <1>1, FloorInit, FloorStep, MirrorStep, TypeAlways, PTL DEF Spec
<1>3. MirrorInv => NamesDropped
  BY DEF MirrorInv, NamesDropped, NothingLeftBehind, Live
<1> QED BY <1>2, <1>3, PTL DEF Spec
===============================================================================
