--------------------------- MODULE EntryCacheProofs ---------------------------
(***************************************************************************)
(* Theorems about EntryCache, for every set of callers, every lifetime,    *)
(* every number of faults and both settings of the clock.                  *)
(***************************************************************************)
EXTENDS EntryCache, TLAPS

Loading == {"peek", "evict", "read", "warm", "fetch", "set", "persist"}

(* Where a caller stands says what it has yet to load and what it carries: *)
(* a user comes alone, with the context's version from the start.          *)
Route(c) ==
    /\ pc[c] \in Loading => todo[c] # <<>>
    /\ \A i \in 1..Len(todo[c]) : todo[c][i] = "user" => Len(todo[c]) = 1

Load(c) ==
    /\ pc[c] \in {"warm", "set", "persist"} => held[c] # None
    /\ pc[c] \in {"peek", "evict", "read"} => (held[c] # None <=> At(c) = "user")
    /\ pc[c] \notin Loading \ {"fetch"} => held[c] = None

Located == \A c \in Caller : Route(c) /\ Load(c)

CallersTyped ==
    /\ pc \in [Caller -> Location]
    /\ op \in [Caller -> DOMAIN Loads \cup {"row", "none"}]
    /\ todo \in [Caller -> Seq(Kind)]
    /\ held \in [Caller -> Version \cup {None}]
    /\ Located

TypeInv == Typed /\ Located

-------------------------------------------------------------------------------
(* Lemmas on the operators *)

LEMMA LoadsType ==
    /\ DOMAIN Loads = {"can", "record", "summary", "user", "drop"}
    /\ \A call \in DOMAIN Loads : Loads[call] \in Seq(Kind) /\ Loads[call] # <<>>
    /\ \A call \in DOMAIN Loads : \A i \in 1..Len(Loads[call]) :
          Loads[call][i] = "user" => Len(Loads[call]) = 1
    /\ Head(Loads["user"]) = "user"
    /\ \A call \in {"can", "record", "summary", "drop"} : Head(Loads[call]) # "user"
<1>1. DOMAIN Loads = {"can", "record", "summary", "user", "drop"} BY DEF Loads
<1>2. /\ Loads["can"] = <<"feature", "packages", "boosts">>
      /\ Loads["record"] = <<"feature">>
      /\ Loads["summary"] = <<"packages", "boosts", "feature", "packages", "boosts">>
      /\ Loads["user"] = <<"user">>
      /\ Loads["drop"] = <<"packages", "boosts">>
  BY DEF Loads
<1>3. /\ "packages" \in Kind /\ "boosts" \in Kind /\ "feature" \in Kind /\ "user" \in Kind
  BY DEF Kind, Lists
<1>a. Loads["can"] \in Seq(Kind) /\ Loads["can"] # <<>> BY <1>2, <1>3
<1>b. Loads["record"] \in Seq(Kind) /\ Loads["record"] # <<>> BY <1>2, <1>3
<1>c. Loads["summary"] \in Seq(Kind) /\ Loads["summary"] # <<>> BY <1>2, <1>3
<1>d. Loads["user"] \in Seq(Kind) /\ Loads["user"] # <<>> BY <1>2, <1>3
<1>e. Loads["drop"] \in Seq(Kind) /\ Loads["drop"] # <<>> BY <1>2, <1>3
<1>4. ASSUME NEW call \in DOMAIN Loads, call # "user", NEW i \in 1..Len(Loads[call])
      PROVE  Loads[call][i] # "user"
  <2>1. CASE call = "can" BY <1>2, <2>1
  <2>2. CASE call = "record" BY <1>2, <2>2
  <2>3. CASE call = "summary" BY <1>2, <2>3
  <2>4. CASE call = "drop" BY <1>2, <2>4
  <2> QED BY <1>1, <1>4, <2>1, <2>2, <2>3, <2>4
<1>5. Len(Loads["user"]) = 1 BY <1>2
<1>6. Head(Loads["user"]) = "user" BY <1>2
<1>7. \A call \in {"can", "record", "summary", "drop"} : Head(Loads[call]) # "user" BY <1>2
<1> QED BY <1>1, <1>a, <1>b, <1>c, <1>d, <1>e, <1>4, <1>5, <1>6, <1>7

LEMMA AgedType == ASSUME NEW e \in Entry \cup {None} PROVE Aged(e) \in Entry \cup {None}
<1>1. CASE e = None BY <1>1 DEF Aged
<1>2. CASE e # None
  <2>1. e \in Entry BY <1>2
  <2>2. /\ Older(e.age) \in 0..MaxAge
        /\ (IF e.left >= 0 THEN e.left - 1 ELSE e.left) \in -1..TTL
    BY <2>1, TTLAssumption DEF Entry, Older, MaxAge
  <2> QED BY <1>2, <2>1, <2>2 DEF Aged, Entry
<1> QED BY <1>1, <1>2

\* What ages is still of the same version.
LEMMA AgedSeen ==
    ASSUME NEW e \in Entry \cup {None}
    PROVE  /\ Aged(e) # None => e # None /\ Aged(e).seen = e.seen
           /\ AgedInStore(e) # None => e # None /\ AgedInStore(e).seen = e.seen
<1>1. CASE e = None BY <1>1 DEF Aged, AgedInStore, Live
<1>2. CASE e # None
  <2>1. e \in Entry BY <1>2
  <2>2. Aged(e).seen = e.seen BY <1>2, <2>1 DEF Aged, Entry
  <2> QED BY <1>2, <2>2 DEF AgedInStore
<1> QED BY <1>1, <1>2

LEMMA FreshType == ASSUME NEW n \in Version PROVE Fresh(n) \in Entry /\ Fresh(n) # None
BY TTLAssumption, NoneAssumption DEF Fresh, Version, Entry

LEMMA NewType == ASSUME NEW n \in Nat PROVE New(n) \in Version /\ New(n) # None
BY TTLAssumption, NoneAssumption DEF New, Version, MaxAge

-------------------------------------------------------------------------------
(* Types *)

LEMMA TypeInit == Init => TypeInv
BY DEF Init, TypeInv, Typed, Located, Route, Load, Loading, Location

\* The callers' variables stay typed when a caller begins, moves on, takes up a
\* version, ends one load or returns.
LEMMA BeginTyped ==
    ASSUME TypeInv, NEW c \in Caller, NEW call \in DOMAIN Loads,
           NEW l \in {"peek", "fetch", "drop"},
           NEW v \in Version \cup {None}, Begin(c, call, l, v),
           IF l = "peek" THEN v # None <=> call = "user" ELSE v = None
    PROVE  CallersTyped'
<1>1. /\ pc' = [pc EXCEPT ![c] = l] /\ op' = [op EXCEPT ![c] = call]
      /\ todo' = [todo EXCEPT ![c] = Loads[call]] /\ held' = [held EXCEPT ![c] = v]
  BY DEF Begin
<1>2. /\ Loads[call] \in Seq(Kind) /\ Loads[call] # <<>>
      /\ \A i \in 1..Len(Loads[call]) : Loads[call][i] = "user" => Len(Loads[call]) = 1
      /\ Head(Loads[call]) = "user" <=> call = "user"
  BY LoadsType
<1>3. /\ pc' \in [Caller -> Location] /\ op' \in [Caller -> DOMAIN Loads \cup {"row", "none"}]
      /\ todo' \in [Caller -> Seq(Kind)] /\ held' \in [Caller -> Version \cup {None}]
  BY <1>1, <1>2 DEF TypeInv, Typed, Location
<1>4. Route(c)' BY <1>1, <1>2 DEF TypeInv, Typed, Route
<1>5. Load(c)' BY <1>1, <1>2 DEF TypeInv, Typed, Load, Loading, At
<1>6. ASSUME NEW d \in Caller, d # c PROVE Route(d)' /\ Load(d)'
  BY <1>1, <1>6 DEF TypeInv, Typed, Located, Route, Load, Loading, At
<1> QED BY <1>3, <1>4, <1>5, <1>6 DEF CallersTyped, Located

LEMMA GoTyped ==
    ASSUME TypeInv, NEW c \in Caller, NEW l \in Location, Go(c, l),
           pc[c] \in Loading => l \in Loading,
           pc[c] \notin Loading => l \notin Loading,
           l \in {"warm", "set", "persist"} => held[c] # None,
           l \in {"evict", "read"} => (held[c] # None <=> At(c) = "user"),
           l = "fetch" => held[c] = None,
           l # "peek"
    PROVE  CallersTyped'
<1>1. pc' = [pc EXCEPT ![c] = l] /\ UNCHANGED <<op, todo, held>> BY DEF Go
<1>2. Route(c)' BY <1>1 DEF TypeInv, Typed, Located, Route
<1>3. Load(c)' BY <1>1 DEF TypeInv, Typed, Located, Load, Loading, At
<1>4. ASSUME NEW d \in Caller, d # c PROVE Route(d)' /\ Load(d)'
  BY <1>1, <1>4 DEF TypeInv, Typed, Located, Route, Load, Loading, At
<1> QED BY <1>1, <1>2, <1>3, <1>4 DEF TypeInv, Typed, CallersTyped, Located

LEMMA CarryTyped ==
    ASSUME TypeInv, NEW c \in Caller, NEW l \in {"warm", "set"}, NEW v \in Version,
           Carry(c, l, v), pc[c] \in Loading
    PROVE  CallersTyped'
<1>1. /\ pc' = [pc EXCEPT ![c] = l] /\ held' = [held EXCEPT ![c] = v]
      /\ UNCHANGED <<op, todo>>
  BY DEF Carry
<1>2. v # None BY NoneAssumption
<1>3. Route(c)' BY <1>1 DEF TypeInv, Typed, Located, Route
<1>4. Load(c)' BY <1>1, <1>2 DEF TypeInv, Typed, Load, Loading
<1>5. ASSUME NEW d \in Caller, d # c PROVE Route(d)' /\ Load(d)'
  BY <1>1, <1>5 DEF TypeInv, Typed, Located, Route, Load, Loading, At
<1> QED BY <1>1, <1>3, <1>4, <1>5 DEF TypeInv, Typed, CallersTyped, Located, Location

LEMMA ReturnTyped ==
    ASSUME TypeInv, NEW c \in Caller, Return(c) PROVE CallersTyped'
<1>1. /\ pc' = [pc EXCEPT ![c] = "idle"] /\ op' = [op EXCEPT ![c] = "none"]
      /\ todo' = [todo EXCEPT ![c] = <<>>] /\ held' = [held EXCEPT ![c] = None]
  BY DEF Return
<1>2. Route(c)' /\ Load(c)' BY <1>1 DEF TypeInv, Typed, Route, Load, Loading
<1>3. ASSUME NEW d \in Caller, d # c PROVE Route(d)' /\ Load(d)'
  BY <1>1, <1>3 DEF TypeInv, Typed, Located, Route, Load, Loading, At
<1> QED BY <1>1, <1>2, <1>3 DEF TypeInv, Typed, CallersTyped, Located, Location

LEMMA EmptySeq == ASSUME NEW S, NEW s \in Seq(S), s # <<>> PROVE Len(s) > 0
OBVIOUS

\* What follows in a call of more than one load is never a user.
LEMMA TailTyped ==
    ASSUME NEW s \in Seq(Kind), s # <<>>,
           \A i \in 1..Len(s) : s[i] = "user" => Len(s) = 1
    PROVE  /\ Tail(s) \in Seq(Kind)
           /\ \A i \in 1..Len(Tail(s)) : Tail(s)[i] # "user"
           /\ Len(s) # 1 => Tail(s) # <<>> /\ Head(Tail(s)) # "user"
<1>1. Tail(s) \in Seq(Kind) /\ Len(Tail(s)) = Len(s) - 1 OBVIOUS
<1>2. ASSUME NEW i \in 1..Len(Tail(s)) PROVE Tail(s)[i] # "user"
  <2>1. Tail(s)[i] = s[i + 1] /\ i + 1 \in 1..Len(s) /\ Len(s) # 1 BY <1>1
  <2> QED BY <2>1
<1>3. ASSUME Len(s) # 1 PROVE Tail(s) # <<>> /\ Head(Tail(s)) # "user"
  <2>1. Len(s) > 0 BY EmptySeq
  <2>2. 1 \in 1..Len(Tail(s)) BY <1>1, <1>3, <2>1
  <2>3. ASSUME NEW t \in Seq(Kind), 1 \in 1..Len(t) PROVE t # <<>> /\ Head(t) = t[1] BY <2>3
  <2>4. Tail(s) # <<>> /\ Head(Tail(s)) = Tail(s)[1] BY <1>1, <2>2, <2>3, Zenon
  <2> QED BY <1>2, <2>2, <2>4, Zenon
<1> QED BY <1>1, <1>2, <1>3, Zenon

LEMMA LoadedTyped ==
    ASSUME TypeInv, NEW c \in Caller, NEW ok \in BOOLEAN, Loaded(c, ok), pc[c] \in Loading
    PROVE  CallersTyped'
<1>1. CASE Return(c) BY <1>1, ReturnTyped
<1>2. CASE ~Return(c)
  <2>1. /\ pc' = [pc EXCEPT ![c] = "peek"]
        /\ op' = [op EXCEPT ![c] = IF @ = "summary" /\ ok THEN "row" ELSE @]
        /\ todo' = [todo EXCEPT ![c] = Tail(@)]
        /\ held' = [held EXCEPT ![c] = None]
        /\ Len(todo[c]) # 1
    BY <1>2 DEF Loaded, Ends
  <2>2. /\ todo[c] \in Seq(Kind) /\ todo[c] # <<>>
        /\ \A i \in 1..Len(todo[c]) : todo[c][i] = "user" => Len(todo[c]) = 1
    BY DEF TypeInv, Typed, Located, Route
  <2>3. /\ Tail(todo[c]) \in Seq(Kind) /\ Tail(todo[c]) # <<>>
        /\ \A i \in 1..Len(Tail(todo[c])) : Tail(todo[c])[i] # "user"
        /\ Head(Tail(todo[c])) # "user"
    BY <2>1, <2>2, TailTyped
  <2>4. /\ pc' \in [Caller -> Location] /\ op' \in [Caller -> DOMAIN Loads \cup {"row", "none"}]
        /\ todo' \in [Caller -> Seq(Kind)] /\ held' \in [Caller -> Version \cup {None}]
    BY <2>1, <2>3 DEF TypeInv, Typed, Location
  <2>5. Route(c)' BY <2>1, <2>3 DEF TypeInv, Typed, Route
  <2>6. Load(c)' BY <2>1, <2>3 DEF TypeInv, Typed, Load, Loading, At
  <2>7. ASSUME NEW d \in Caller, d # c PROVE Route(d)' /\ Load(d)'
    BY <2>1, <2>7 DEF TypeInv, Typed, Located, Route, Load, Loading, At
  <2> QED BY <2>4, <2>5, <2>6, <2>7 DEF CallersTyped, Located
<1> QED BY <1>1, <1>2

\* What a caller at a load knows of the kind it is at.
LEMMA AtKind ==
    ASSUME TypeInv, NEW c \in Caller, pc[c] \in Loading PROVE At(c) \in Kind
BY DEF TypeInv, Typed, Located, Route, At

LEMMA TypeStep == TypeInv /\ [Next]_vars => TypeInv'
<1> SUFFICES ASSUME TypeInv, [Next]_vars PROVE TypeInv' OBVIOUS
<1> USE DEF cache, ghosts
<1>0. CallersTyped' /\ UNCHANGED <<api, memory, stored, lock, floor>> /\ faults' \in Nat => TypeInv'
  BY DEF TypeInv, Typed, CallersTyped
<1>1. Fault => faults' \in Nat BY DEF Fault, TypeInv, Typed
<1>2. ASSUME NEW c \in Caller, Starts(c) PROVE TypeInv'
  <2>1. CASE StartLoads(c)
    <3>1. PICK call \in {"can", "record", "summary"} : Begin(c, call, "peek", None)
      BY <2>1 DEF StartLoads
    <3>2. call \in DOMAIN Loads /\ call # "user" BY <3>1, LoadsType
    <3>3. CallersTyped' BY <3>1, <3>2, BeginTyped
    <3> QED BY <3>1, <3>3, <1>0 DEF Begin, TypeInv, Typed
  <2>2. CASE StartUser(c)
    <3>0. "user" \in DOMAIN Loads BY LoadsType
    <3>1. ASSUME NEW seen \in 1..api, Begin(c, "user", "peek", New(seen)) PROVE TypeInv'
      <4>1. New(seen) \in Version /\ New(seen) # None BY NewType DEF TypeInv, Typed
      <4>2. CallersTyped' BY <3>0, <3>1, <4>1, BeginTyped
      <4> QED BY <3>1, <4>2, <1>0 DEF Begin, TypeInv, Typed
    <3>2. ASSUME Begin(c, "user", "fetch", None) PROVE TypeInv'
      <4>1. CallersTyped' BY <3>0, <3>2, BeginTyped
      <4> QED BY <3>2, <4>1, <1>0 DEF Begin, TypeInv, Typed
    <3> QED BY <2>2, <3>1, <3>2 DEF StartUser
  <2>3. CASE StartDrop(c)
    <3>1. CallersTyped' BY <2>3, LoadsType, BeginTyped DEF StartDrop
    <3> QED BY <2>3, <3>1, <1>0 DEF StartDrop, Begin, TypeInv, Typed
  <2> QED BY <1>2, <2>1, <2>2, <2>3 DEF Starts
<1>3. ASSUME NEW c \in Caller, Peek(c) PROVE TypeInv'
  <2>1. CallersTyped'
    <3>1. CASE Go(c, "read") \/ Go(c, "evict")
      BY <1>3, <3>1, GoTyped DEF Peek, TypeInv, Located, Load, Loading, Location
    <3>2. CASE Loaded(c, TRUE) BY <1>3, <3>2, LoadedTyped DEF Peek, Loading
    <3> QED BY <1>3, <3>1, <3>2 DEF Peek
  <2> QED BY <1>3, <2>1, <1>0 DEF Peek, TypeInv, Typed
<1>4. ASSUME NEW c \in Caller, Evict(c) PROVE TypeInv'
  <2>1. CallersTyped' BY <1>4, GoTyped DEF Evict, TypeInv, Located, Load, Loading, Location
  <2>2. memory' \in [Kind -> Entry \cup {None}] BY <1>4 DEF Evict, TypeInv, Typed
  <2> QED BY <1>4, <2>1, <2>2 DEF Evict, TypeInv, Typed, CallersTyped
<1>5. ASSUME NEW c \in Caller, ReadStored(c) PROVE TypeInv'
  <2> DEFINE e == stored[At(c)]
  <2>0. pc[c] = "read" /\ At(c) \in Kind BY <1>5, AtKind DEF ReadStored, Loading
  <2>1. CallersTyped'
    <3>1. CASE Live(e) /\ Carry(c, "warm", [seen |-> e.seen, age |-> e.age])
      <4>1. e \in Entry BY <2>0, <3>1 DEF Live, TypeInv, Typed
      <4>2. [seen |-> e.seen, age |-> e.age] \in Version BY <4>1 DEF Entry, Version
      <4> HIDE DEF e
      <4> QED BY <2>0, <3>1, <4>2, CarryTyped DEF Loading
    <3>2. CASE Go(c, "set") /\ At(c) = "user"
      BY <2>0, <3>2, GoTyped DEF TypeInv, Located, Load, Loading, Location
    <3>3. CASE Go(c, "fetch") /\ At(c) # "user"
      BY <2>0, <3>3, GoTyped DEF TypeInv, Located, Load, Loading, Location
    <3> QED BY <1>5, <3>1, <3>2, <3>3 DEF ReadStored
  <2>2. faults' \in Nat BY <1>5, <1>1 DEF ReadStored, TypeInv, Typed
  <2> QED BY <1>5, <2>1, <2>2, <1>0 DEF ReadStored
<1>6. ASSUME NEW c \in Caller, Warm(c) PROVE TypeInv'
  <2>1. CallersTyped' BY <1>6, LoadedTyped DEF Warm, Loading
  <2>2. held[c] \in Version BY <1>6 DEF Warm, TypeInv, Typed, Located, Load
  <2>3. memory' \in [Kind -> Entry \cup {None}]
    BY <1>6, <2>2, FreshType DEF Warm, TypeInv, Typed
  <2> QED BY <1>6, <2>1, <2>3 DEF Warm, TypeInv, Typed, CallersTyped
<1>7. ASSUME NEW c \in Caller, Fetch(c) PROVE TypeInv'
  <2>1. New(api) \in Version BY NewType DEF TypeInv, Typed
  <2>2. CallersTyped' BY <1>7, <2>1, CarryTyped, LoadedTyped DEF Fetch, Loading
  <2> QED BY <1>7, <2>2, <1>0 DEF Fetch, TypeInv, Typed
<1>8. ASSUME NEW c \in Caller, Set(c) PROVE TypeInv'
  <2>1. held[c] \in Version /\ held[c] # None
    BY <1>8 DEF Set, TypeInv, Typed, Located, Load
  <2>2. CallersTyped' BY <1>8, <2>1, GoTyped DEF Set, Loading, Location
  <2>3. memory' \in [Kind -> Entry \cup {None}]
    BY <1>8, <2>1, FreshType DEF Set, TypeInv, Typed
  <2> QED BY <1>8, <2>2, <2>3 DEF Set, TypeInv, Typed, CallersTyped
<1>9. ASSUME NEW c \in Caller, Persist(c) PROVE TypeInv'
  <2>1. CallersTyped' BY <1>9, LoadedTyped DEF Persist, Loading
  <2>2. held[c] \in Version BY <1>9 DEF Persist, TypeInv, Typed, Located, Load
  <2>3. stored' \in [Kind -> Entry \cup {None}]
    BY <1>9, <2>2, FreshType DEF Persist, TypeInv, Typed
  <2>4. faults' \in Nat BY <1>9, <1>1 DEF Persist, TypeInv, Typed
  <2> QED BY <1>9, <2>1, <2>3, <2>4 DEF Persist, TypeInv, Typed, CallersTyped
<1>10. ASSUME NEW c \in Caller, Drop(c) PROVE TypeInv'
  <2>1. PICK l \in {"clear", "clearAgain", "clearFailed"} : Go(c, l) BY <1>10 DEF Drop
  <2>2. CallersTyped'
    BY <1>10, <2>1, GoTyped DEF Drop, TypeInv, Located, Load, Loading, Location
  <2>3. memory' \in [Kind -> Entry \cup {None}] BY <1>10 DEF Drop, TypeInv, Typed
  <2>4. faults' \in Nat BY <1>10, <1>1 DEF Drop, TypeInv, Typed
  <2> QED BY <1>10, <2>2, <2>3, <2>4 DEF Drop, TypeInv, Typed, CallersTyped
<1>11. ASSUME NEW c \in Caller, Clear(c) PROVE TypeInv'
  <2>1. /\ todo[c] \in Seq(Kind) /\ todo[c] # <<>>
        /\ \A i \in 1..Len(todo[c]) : todo[c][i] = "user" => Len(todo[c]) = 1
    BY <1>11 DEF Clear, TypeInv, Typed, Located, Route
  <2>2. /\ Tail(todo[c]) \in Seq(Kind)
        /\ \A i \in 1..Len(Tail(todo[c])) : Tail(todo[c])[i] # "user"
    BY <2>1, TailTyped
  <2>3. PICK l \in Clearing : /\ pc' = [pc EXCEPT ![c] = l] /\ pc[c] \in Clearing
                             /\ todo' = [todo EXCEPT ![c] = Tail(@)]
                             /\ UNCHANGED <<op, held>>
    BY <1>11 DEF Clear, Clearing, TypeInv, Typed
  <2>4. /\ pc' \in [Caller -> Location] /\ todo' \in [Caller -> Seq(Kind)]
    BY <2>2, <2>3 DEF TypeInv, Typed, Location, Clearing
  <2>5. Route(c)' /\ Load(c)'
    BY <2>2, <2>3 DEF TypeInv, Typed, Located, Route, Load, Loading, Clearing, At
  <2>6. ASSUME NEW d \in Caller, d # c PROVE Route(d)' /\ Load(d)'
    BY <2>3, <2>6 DEF TypeInv, Typed, Located, Route, Load, Loading, At
  <2>7. stored' \in [Kind -> Entry \cup {None}] BY <1>11 DEF Clear, TypeInv, Typed
  <2>8. faults' \in Nat BY <1>11, <1>1 DEF Clear, TypeInv, Typed
  <2> QED BY <1>11, <2>3, <2>4, <2>5, <2>6, <2>7, <2>8 DEF Clear, TypeInv, Typed, Located
<1>12. ASSUME NEW c \in Caller, Cleared(c) PROVE TypeInv'
  <2>1. CallersTyped'
    <3>1. CASE pc[c] = "clear"
      <4>1. /\ pc' = [pc EXCEPT ![c] = "dropAgain"]
            /\ todo' = [todo EXCEPT ![c] = Loads["drop"]]
            /\ UNCHANGED <<op, held>>
        BY <1>12, <3>1 DEF Cleared
      <4>2. /\ Loads["drop"] \in Seq(Kind)
            /\ \A i \in 1..Len(Loads["drop"]) : Loads["drop"][i] = "user" => Len(Loads["drop"]) = 1
        BY LoadsType
      <4>3. Route(c)' /\ Load(c)'
        BY <3>1, <4>1, <4>2 DEF TypeInv, Typed, Located, Route, Load, Loading, At
      <4>4. ASSUME NEW d \in Caller, d # c PROVE Route(d)' /\ Load(d)'
        BY <4>1, <4>4 DEF TypeInv, Typed, Located, Route, Load, Loading, At
      <4>5. /\ pc' \in [Caller -> Location] /\ todo' \in [Caller -> Seq(Kind)]
        BY <4>1, <4>2 DEF TypeInv, Typed, Location
      <4> QED BY <4>1, <4>3, <4>4, <4>5 DEF TypeInv, Typed, CallersTyped, Located
    <3>2. CASE pc[c] # "clear" BY <1>12, <3>2, ReturnTyped DEF Cleared
    <3> QED BY <3>1, <3>2
  <2>2. floor' \in Nat BY <1>12 DEF Cleared, TypeInv, Typed
  <2> QED BY <1>12, <2>1, <2>2 DEF Cleared, TypeInv, Typed, CallersTyped
<1>13. CASE Change
  BY <1>13 DEF Change, TypeInv, Typed, Located, Route, Load, At
<1>14. CASE Tick
  <2>1. ASSUME NEW c \in Caller
        PROVE  held'[c] \in Version \cup {None} /\ (held'[c] = None <=> held[c] = None)
    <3>1. CASE held[c] = None BY <1>14, <3>1 DEF Tick
    <3>2. CASE held[c] # None
      <4>1. held[c] \in Version BY <3>2 DEF TypeInv, Typed
      <4>2. Older(held[c].age) \in 0..MaxAge
        BY <4>1, TTLAssumption DEF Version, Older, MaxAge
      <4>3. held'[c] \in Version BY <1>14, <3>2, <4>1, <4>2 DEF Tick, Version
      <4> QED BY <3>2, <4>3, NoneAssumption
    <3> QED BY <3>1, <3>2
  <2>2. held' \in [Caller -> Version \cup {None}] BY <1>14, <2>1 DEF Tick
  <2>3. ASSUME NEW k \in Kind PROVE Aged(memory[k]) \in Entry \cup {None}
    BY AgedType DEF TypeInv, Typed
  <2>4. ASSUME NEW k \in Kind PROVE AgedInStore(stored[k]) \in Entry \cup {None}
    BY AgedType DEF TypeInv, Typed, AgedInStore
  <2>5. Located' BY <1>14, <2>1 DEF Tick, TypeInv, Located, Route, Load, At
  <2> QED BY <1>14, <2>2, <2>3, <2>4, <2>5 DEF Tick, TypeInv, Typed
<1>15. CASE Restart
  <2>1. Located' BY <1>15 DEF Restart, Located, Route, Load, Loading
  <2> QED BY <1>15, <1>1, <2>1 DEF Restart, TypeInv, Typed, Location
<1>16. CASE UNCHANGED vars BY <1>16 DEF vars, TypeInv, Typed, Located, Route, Load, At
<1> QED
  BY <1>2, <1>3, <1>4, <1>5, <1>6, <1>7, <1>8, <1>9, <1>10, <1>11, <1>12, <1>13, <1>14,
     <1>15, <1>16 DEF Next, Steps

-------------------------------------------------------------------------------
(* What a drop leaves.  The lock is held from the deletion in memory to the  *)
(* last one in the store, so nothing comes back in between.                  *)

Both == <<"packages", "boosts">>
Last == <<"boosts">>

\* `clearAgain` has deleted every list it does not still have to: a call that
\* kept an error is elsewhere.
Emptied ==
    \A c \in Caller :
        /\ pc[c] \in {"drop", "dropAgain"} => todo[c] = Both
        /\ pc[c] \in Clearing =>
              todo[c] \in {Both, Last, <<>>} /\ \A k \in Lists : memory[k] = None
        /\ pc[c] = "clearAgain" =>
              /\ todo[c] # Both => stored["packages"] = None
              /\ todo[c] = <<>> => stored["boosts"] = None

ListInv == Exclusive /\ Emptied /\ floor <= api /\ ListsAfterDrop

LEMMA DropLists ==
    /\ Loads["drop"] = Both /\ Lists = {"packages", "boosts"}
    /\ Head(Both) = "packages" /\ Tail(Both) = Last
    /\ Head(Last) = "boosts" /\ Tail(Last) = <<>>
    /\ Both # Last /\ Both # <<>> /\ Last # <<>>
BY DEF Loads, Both, Last, Lists

LEMMA ListInit == Init => ListInv
<1> SUFFICES ASSUME Init PROVE ListInv OBVIOUS
<1>1. Exclusive /\ Emptied BY FreeAssumption DEF Init, Exclusive, Emptied, Clearing
<1>2. floor <= api BY DEF Init
<1>3. ListsAfterDrop BY DEF Init, ListsAfterDrop, Kind
<1> QED BY <1>1, <1>2, <1>3 DEF ListInv

\* The end of a load touches nobody else, and puts down what was carried.
LEMMA LoadedMoves ==
    ASSUME TypeInv, NEW c \in Caller, NEW ok \in BOOLEAN, Loaded(c, ok)
    PROVE  /\ \E l \in {"idle", "peek"} : pc' = [pc EXCEPT ![c] = l]
           /\ \A d \in Caller \ {c} : todo'[d] = todo[d] /\ held'[d] = held[d]
           /\ held'[c] = None
BY DEF Loaded, Return, TypeInv, Typed

\* Where a step of the caller leads, and what it does with the lock.
LEMMA StepMoves ==
    ASSUME TypeInv, NEW c \in Caller, Steps(c)
    PROVE  \E l \in Location :
              /\ pc' = [pc EXCEPT ![c] = l]
              /\ \/ lock' = lock /\ {l, pc[c]} \cap (Clearing \cup {"persist"}) = {}
                 \/ lock' = lock /\ l \in Clearing /\ pc[c] \in Clearing
                 \/ lock' = Free /\ pc[c] \in Clearing \cup {"persist"}
                                 /\ l \notin Clearing \cup {"persist"}
                 \/ lock' = c /\ lock = Free /\ l \in Clearing \cup {"persist"}
<1> USE DEF cache, Clearing
<1>1. CASE Peek(c) BY <1>1, LoadedMoves DEF Peek, Go, Location
<1>2. CASE Evict(c) BY <1>2 DEF Evict, Go, Location
<1>3. CASE ReadStored(c) BY <1>3 DEF ReadStored, Go, Carry, Location
<1>4. CASE Warm(c) BY <1>4, LoadedMoves DEF Warm, Location
<1>5. CASE Fetch(c) BY <1>5, LoadedMoves DEF Fetch, Carry, Location
<1>6. CASE Set(c) BY <1>6 DEF Set, Go, Location
<1>7. CASE Persist(c) BY <1>7, LoadedMoves DEF Persist, Location
<1>8. CASE Drop(c) BY <1>8 DEF Drop, Go, Location
<1>9. CASE Clear(c)
  <2>1. PICK l \in Clearing : pc' = [pc EXCEPT ![c] = l] BY <1>9 DEF Clear, TypeInv, Typed
  <2> QED BY <1>9, <2>1 DEF Clear, Location
<1>10. CASE Cleared(c) BY <1>10 DEF Cleared, Return, Location
<1> QED BY <1>1, <1>2, <1>3, <1>4, <1>5, <1>6, <1>7, <1>8, <1>9, <1>10 DEF Steps

LEMMA ExclusiveStep == TypeInv /\ Exclusive /\ [Next]_vars => Exclusive'
<1> SUFFICES ASSUME TypeInv, Exclusive, [Next]_vars PROVE Exclusive' OBVIOUS
<1>1. ASSUME NEW c \in Caller, Starts(c) PROVE Exclusive'
  BY <1>1 DEF Starts, StartLoads, StartUser, StartDrop, Begin, cache, Clearing,
              Exclusive, TypeInv, Typed
<1>2. ASSUME NEW c \in Caller, Steps(c) PROVE Exclusive'
  <2> DEFINE Held == Clearing \cup {"persist"}
  <2>1. PICK l \in Location :
            /\ pc' = [pc EXCEPT ![c] = l]
            /\ \/ lock' = lock /\ {l, pc[c]} \cap Held = {}
               \/ lock' = lock /\ l \in Clearing /\ pc[c] \in Clearing
               \/ lock' = Free /\ pc[c] \in Held /\ l \notin Held
               \/ lock' = c /\ lock = Free /\ l \in Held
    BY <1>2, StepMoves
  <2>2. pc'[c] = l /\ \A d \in Caller \ {c} : pc'[d] = pc[d]
    BY <2>1 DEF TypeInv, Typed
  <2>3. \A d \in Caller : lock = d <=> pc[d] \in Held BY DEF Exclusive
  <2>4. lock' = c <=> l \in Held BY <2>1, <2>3, FreeAssumption
  <2>5. ASSUME NEW d \in Caller \ {c} PROVE lock' = d <=> pc[d] \in Held
    BY <2>1, <2>3, FreeAssumption
  <2> QED BY <2>2, <2>4, <2>5 DEF Exclusive
<1>3. CASE Change BY <1>3 DEF Change, cache, Exclusive
<1>4. CASE Tick BY <1>4 DEF Tick, Exclusive
<1>5. CASE Restart BY <1>5, FreeAssumption DEF Restart, Exclusive, Clearing
<1>6. CASE UNCHANGED vars BY <1>6 DEF vars, Exclusive
<1> QED BY <1>1, <1>2, <1>3, <1>4, <1>5, <1>6 DEF Next

\* The entries of TenantCache and the calls that load them stay typed, and a
\* locked section keeps its lock (cache.go:305-604).
THEOREM TypeCorrect == Spec => []TypeOK
<1>1. Init => Exclusive BY FreeAssumption DEF Init, Exclusive, Clearing
<1>2. TypeInv /\ Exclusive => TypeOK BY DEF TypeOK, TypeInv
<1> QED BY <1>1, <1>2, TypeInit, TypeStep, ExclusiveStep, PTL DEF Spec

\* A caller that drops hears of no load, and the others only of their own.
LEMMA EmptiedStep == TypeInv /\ Exclusive /\ Emptied /\ [Next]_vars => Emptied'
<1> SUFFICES ASSUME TypeInv, Exclusive, Emptied, [Next]_vars PROVE Emptied' OBVIOUS
<1> USE DEF cache, Clearing
\* One caller moves, and is not left in the middle of a drop.
<1>0. ASSUME NEW c \in Caller, NEW l \in Location, pc' = [pc EXCEPT ![c] = l],
             l \notin Clearing, l \in {"drop", "dropAgain"} => todo'[c] = Both,
             \A d \in Caller \ {c} : todo'[d] = todo[d],
             (memory' = memory /\ stored' = stored) \/ lock \in {c, Free}
      PROVE  Emptied'
  <2>1. ASSUME NEW d \in Caller, d # c, pc[d] \in Clearing
        PROVE  memory' = memory /\ stored' = stored
    BY <1>0, <2>1, FreeAssumption DEF Exclusive
  <2> QED BY <1>0, <2>1 DEF Emptied, TypeInv, Typed
<1>1. ASSUME NEW c \in Caller, Starts(c) PROVE Emptied'
  <2>1. PICK call \in DOMAIN Loads, l \in {"peek", "fetch", "drop"} :
            /\ pc' = [pc EXCEPT ![c] = l] /\ todo' = [todo EXCEPT ![c] = Loads[call]]
            /\ memory' = memory /\ stored' = stored
            /\ l = "drop" => call = "drop"
    BY <1>1, LoadsType DEF Starts, StartLoads, StartUser, StartDrop, Begin
  <2> QED BY <2>1, <1>0, DropLists DEF Location, TypeInv, Typed
<1>2. ASSUME NEW c \in Caller, Peek(c) PROVE Emptied'
  <2>1. PICK l \in {"idle", "peek", "read", "evict"} : pc' = [pc EXCEPT ![c] = l]
    BY <1>2, LoadedMoves DEF Peek, Go
  <2>2. \A d \in Caller \ {c} : todo'[d] = todo[d] BY <1>2, LoadedMoves DEF Peek, Go
  <2> QED BY <1>2, <2>1, <2>2, <1>0 DEF Peek, Location
<1>3. ASSUME NEW c \in Caller, Evict(c) PROVE Emptied'
  BY <1>3, <1>0 DEF Evict, Go, Location
<1>4. ASSUME NEW c \in Caller, ReadStored(c) PROVE Emptied'
  <2>1. PICK l \in {"warm", "set", "fetch"} : pc' = [pc EXCEPT ![c] = l]
    BY <1>4 DEF ReadStored, Go, Carry
  <2> QED BY <1>4, <2>1, <1>0 DEF ReadStored, Go, Carry, Location
<1>5. ASSUME NEW c \in Caller, Warm(c) PROVE Emptied'
  BY <1>5, LoadedMoves, <1>0 DEF Warm, Location
<1>6. ASSUME NEW c \in Caller, Fetch(c) PROVE Emptied'
  BY <1>6, LoadedMoves, <1>0 DEF Fetch, Carry, Location
<1>7. ASSUME NEW c \in Caller, Set(c) PROVE Emptied'
  BY <1>7, <1>0 DEF Set, Go, Location
<1>8. ASSUME NEW c \in Caller, Persist(c) PROVE Emptied'
  <2>1. lock = c BY <1>8 DEF Persist, Exclusive
  <2> QED BY <1>8, <2>1, LoadedMoves, <1>0 DEF Persist, Location
<1>9. ASSUME NEW c \in Caller, Drop(c) PROVE Emptied'
  <2>1. \A d \in Caller \ {c} : pc[d] \notin Clearing
    BY <1>9, FreeAssumption DEF Drop, Exclusive
  <2>2. /\ \E l \in Clearing : pc' = [pc EXCEPT ![c] = l]
        /\ todo' = todo /\ stored' = stored /\ todo[c] = Both
    BY <1>9 DEF Drop, Go, Emptied
  <2>3. \A k \in Lists : memory'[k] = None BY <1>9 DEF Drop, Kind
  <2> QED BY <2>1, <2>2, <2>3, DropLists DEF Emptied, TypeInv, Typed
<1>10. ASSUME NEW c \in Caller, Clear(c) PROVE Emptied'
  <2>1. \A d \in Caller \ {c} : pc[d] \notin Clearing
    BY <1>10 DEF Clear, Exclusive
  <2>2. /\ todo' = [todo EXCEPT ![c] = Tail(@)] /\ memory' = memory
        /\ todo[c] \in {Both, Last} /\ pc[c] \in Clearing
    BY <1>10 DEF Clear, Emptied
  <2>3. PICK l \in Clearing : pc' = [pc EXCEPT ![c] = l]
    BY <1>10 DEF Clear, TypeInv, Typed
  <2>4. l = "clearAgain" => pc[c] = "clearAgain" /\ stored' = [stored EXCEPT ![At(c)] = None]
    BY <1>10, <2>3 DEF Clear, TypeInv, Typed
  <2>5. todo'[c] \in {Last, <<>>} /\ (todo[c] = Both => todo'[c] = Last)
        /\ (todo[c] = Last => todo'[c] = <<>>)
    BY <2>2, DropLists DEF TypeInv, Typed
  <2>6. \A k \in Lists : memory'[k] = None BY <2>2 DEF Emptied
  <2>7. ASSUME l = "clearAgain"
        PROVE  /\ todo'[c] # Both => stored'["packages"] = None
               /\ todo'[c] = <<>> => stored'["boosts"] = None
    <3>1. CASE todo[c] = Both
      <4>1. stored'["packages"] = None
        BY <2>4, <2>7, <3>1, DropLists DEF At, Kind, TypeInv, Typed
      <4> QED BY <3>1, <4>1, <2>5, DropLists
    <3>2. CASE todo[c] = Last
      <4>1. stored["packages"] = None BY <2>4, <2>7, <3>2, DropLists DEF Emptied
      <4>2. stored'["packages"] = None /\ stored'["boosts"] = None
        BY <2>4, <2>7, <3>2, <4>1, DropLists DEF At, Kind, TypeInv, Typed
      <4> QED BY <4>2
    <3> QED BY <2>2, <3>1, <3>2
  <2> QED BY <2>1, <2>2, <2>3, <2>5, <2>6, <2>7 DEF Emptied, TypeInv, Typed
<1>11. ASSUME NEW c \in Caller, Cleared(c) PROVE Emptied'
  <2>1. PICK l \in {"dropAgain", "idle"} :
            /\ pc' = [pc EXCEPT ![c] = l]
            /\ l = "dropAgain" => todo'[c] = Both
    BY <1>11, DropLists DEF Cleared, Return, TypeInv, Typed
  <2>2. \A d \in Caller \ {c} : todo'[d] = todo[d]
    BY <1>11 DEF Cleared, Return, TypeInv, Typed
  <2>3. memory' = memory /\ stored' = stored BY <1>11 DEF Cleared
  <2> QED BY <2>1, <2>2, <2>3, <1>0 DEF Location
<1>12. CASE Change BY <1>12 DEF Change, Emptied
<1>13. CASE Tick
  <2>1. \A k \in Kind : memory[k] = None => memory'[k] = None BY <1>13 DEF Tick, Aged
  <2>2. \A k \in Kind : stored[k] = None => stored'[k] = None
    BY <1>13 DEF Tick, Aged, AgedInStore, Live
  <2> QED BY <1>13, <2>1, <2>2 DEF Tick, Emptied, Kind, Lists
<1>14. CASE Restart BY <1>14 DEF Restart, Emptied
<1>15. CASE UNCHANGED vars BY <1>15 DEF vars, Emptied
<1> QED
  BY <1>1, <1>2, <1>3, <1>4, <1>5, <1>6, <1>7, <1>8, <1>9, <1>10, <1>11, <1>12, <1>13,
     <1>14, <1>15 DEF Next, Steps

\* A caller at the end of a drop carries nothing and disturbs nobody.
LEMMA ClearedMoves ==
    ASSUME TypeInv, NEW c \in Caller, Cleared(c)
    PROVE  /\ held[c] = None /\ held' = held
           /\ \A d \in Caller \ {c} : pc'[d] = pc[d] /\ todo'[d] = todo[d]
<1>1. pc[c] \in Clearing BY DEF Cleared
<1>2. held[c] = None BY <1>1 DEF Clearing, TypeInv, Located, Load, Loading
<1>3. /\ pc \in [Caller -> Location] /\ todo \in [Caller -> Seq(Kind)]
      /\ held \in [Caller -> Version \cup {None}]
  BY DEF TypeInv, Typed
<1>4. \/ \E l, s : /\ pc' = [pc EXCEPT ![c] = l] /\ todo' = [todo EXCEPT ![c] = s]
                   /\ held' = held
      \/ Return(c)
  BY DEF Cleared
<1>5. CASE \E l, s : /\ pc' = [pc EXCEPT ![c] = l] /\ todo' = [todo EXCEPT ![c] = s]
                     /\ held' = held
  BY <1>2, <1>3, <1>5
<1>6. CASE Return(c)
  <2>1. /\ pc' = [pc EXCEPT ![c] = "idle"] /\ todo' = [todo EXCEPT ![c] = <<>>]
        /\ held' = [held EXCEPT ![c] = None]
    BY <1>6 DEF Return
  <2>2. held' = held BY <1>2, <1>3, <2>1
  <2> QED BY <1>2, <1>3, <2>1, <2>2
<1> QED BY <1>4, <1>5, <1>6

\* The three places a list can be in, each from the floor on.
LEMMA ListStep == TypeInv /\ ListInv /\ [Next]_vars => (floor <= api)' /\ ListsAfterDrop'
<1> SUFFICES ASSUME TypeInv, ListInv, [Next]_vars PROVE (floor <= api)' /\ ListsAfterDrop'
  OBVIOUS
<1> DEFINE Past(v) == v # None => v.seen >= floor
<1> USE DEF cache, ghosts
<1>0. /\ api \in Nat \ {0} /\ floor \in Nat /\ floor <= api /\ Lists \subseteq Kind
      /\ \A k \in Lists : Past(memory[k]) /\ Past(stored[k])
      /\ \A c \in Caller : At(c) \in Lists => Past(held[c])
  BY DEF TypeInv, Typed, ListInv, ListsAfterDrop, Kind
\* Nothing is dropped, and what is new somewhere is not from before the floor.
<1>1. ASSUME UNCHANGED <<api, floor>>,
             \A k \in Lists : Past(memory'[k]) /\ Past(stored'[k]),
             \A c \in Caller : At(c)' \in Lists => Past(held'[c])
      PROVE  (floor <= api)' /\ ListsAfterDrop'
  BY <1>0, <1>1 DEF ListsAfterDrop
<1>2. ASSUME NEW c \in Caller, Starts(c) PROVE (floor <= api)' /\ ListsAfterDrop'
  <2>1. PICK call \in DOMAIN Loads, l \in Location, v \in Version \cup {None} :
            Begin(c, call, l, v) /\ (v # None => call = "user")
    BY <1>0, <1>2, LoadsType, NewType
    DEF Starts, StartLoads, StartUser, StartDrop, Location
  <2>2. /\ UNCHANGED <<api, memory, stored, floor>>
        /\ \A d \in Caller \ {c} : held'[d] = held[d] /\ At(d)' = At(d)
        /\ held'[c] = v /\ At(c)' = Head(Loads[call])
    BY <2>1 DEF Begin, At, TypeInv, Typed
  <2>3. At(c)' \in Lists => Past(held'[c]) BY <2>1, <2>2, LoadsType DEF Lists
  <2> QED BY <1>0, <1>1, <2>2, <2>3
\* A load ends.
<1>3. ASSUME NEW c \in Caller, NEW ok \in BOOLEAN, Loaded(c, ok)
      PROVE  \A d \in Caller : At(d)' \in Lists => Past(held'[d])
  BY <1>0, <1>3, LoadedMoves DEF At
<1>4. ASSUME NEW c \in Caller, NEW l, Go(c, l)
      PROVE  \A d \in Caller : At(d)' \in Lists => Past(held'[d])
  BY <1>0, <1>4 DEF Go, At
<1>5. ASSUME NEW c \in Caller, NEW l, NEW v, Carry(c, l, v), At(c) \in Lists => Past(v)
      PROVE  \A d \in Caller : At(d)' \in Lists => Past(held'[d])
  BY <1>0, <1>5 DEF Carry, At, TypeInv, Typed
<1>6. ASSUME NEW c \in Caller, pc[c] \in {"warm", "set", "persist"},
             NEW f \in [Kind -> Entry \cup {None}], NEW g,
             \A k \in Lists : Past(f[k]), g = [f EXCEPT ![At(c)] = Fresh(held[c])]
      PROVE  \A k \in Lists : Past(g[k])
  <2>1. held[c] # None BY <1>6 DEF TypeInv, Located, Load
  <2> QED BY <1>0, <1>6, <2>1 DEF Fresh
<1>7. ASSUME NEW c \in Caller, Peek(c) PROVE (floor <= api)' /\ ListsAfterDrop'
  BY <1>7, <1>0, <1>1, <1>3, <1>4 DEF Peek
<1>8. ASSUME NEW c \in Caller, Evict(c) PROVE (floor <= api)' /\ ListsAfterDrop'
  <2>1. \A k \in Lists : Past(memory'[k]) BY <1>0, <1>8 DEF Evict, TypeInv, Typed
  <2> QED BY <1>8, <2>1, <1>0, <1>1, <1>4 DEF Evict
<1>9. ASSUME NEW c \in Caller, ReadStored(c) PROVE (floor <= api)' /\ ListsAfterDrop'
  <2> DEFINE e == stored[At(c)]
  <2>1. CASE Live(e) /\ Carry(c, "warm", [seen |-> e.seen, age |-> e.age])
    <3>1. At(c) \in Lists => Past([seen |-> e.seen, age |-> e.age]) BY <1>0, <2>1 DEF Live
    <3>2. \A d \in Caller : At(d)' \in Lists => Past(held'[d]) BY <2>1, <3>1, <1>5
    <3> QED BY <1>9, <3>2, <1>0, <1>1 DEF ReadStored
  <2>2. CASE \E l \in {"set", "fetch"} : Go(c, l)
    BY <1>9, <2>2, <1>0, <1>1, <1>4 DEF ReadStored
  <2> QED BY <1>9, <2>1, <2>2 DEF ReadStored
<1>10. ASSUME NEW c \in Caller, Warm(c) PROVE (floor <= api)' /\ ListsAfterDrop'
  <2>0. /\ memory' = [memory EXCEPT ![At(c)] = Fresh(held[c])] /\ pc[c] = "warm"
        /\ memory \in [Kind -> Entry \cup {None}]
    BY <1>10 DEF Warm, TypeInv, Typed
  <2>1. \A k \in Lists : Past(memory'[k]) BY <2>0, <1>0, <1>6
  <2> QED BY <1>10, <2>1, <1>0, <1>1, <1>3 DEF Warm
<1>11. ASSUME NEW c \in Caller, Fetch(c) PROVE (floor <= api)' /\ ListsAfterDrop'
  <2>1. Past(New(api)) BY <1>0 DEF New
  <2>2. \A d \in Caller : At(d)' \in Lists => Past(held'[d])
    BY <1>11, <2>1, <1>3, <1>5 DEF Fetch
  <2> QED BY <1>11, <2>2, <1>0, <1>1 DEF Fetch
<1>12. ASSUME NEW c \in Caller, Set(c) PROVE (floor <= api)' /\ ListsAfterDrop'
  <2>0. /\ memory' = [memory EXCEPT ![At(c)] = Fresh(held[c])] /\ pc[c] = "set"
        /\ memory \in [Kind -> Entry \cup {None}]
    BY <1>12 DEF Set, TypeInv, Typed
  <2>1. \A k \in Lists : Past(memory'[k]) BY <2>0, <1>0, <1>6
  <2> QED BY <1>12, <2>1, <1>0, <1>1, <1>4 DEF Set
<1>13. ASSUME NEW c \in Caller, Persist(c) PROVE (floor <= api)' /\ ListsAfterDrop'
  <2>0. /\ stored' = [stored EXCEPT ![At(c)] = Fresh(held[c])] \/ stored' = stored
        /\ pc[c] = "persist" /\ stored \in [Kind -> Entry \cup {None}]
    BY <1>13 DEF Persist, TypeInv, Typed
  <2>1. \A k \in Lists : Past(stored'[k]) BY <2>0, <1>0, <1>6
  <2>2. \A d \in Caller : At(d)' \in Lists => Past(held'[d]) BY <1>13, <1>3 DEF Persist
  <2> QED BY <1>13, <2>1, <2>2, <1>0, <1>1 DEF Persist
<1>14. ASSUME NEW c \in Caller, Drop(c) PROVE (floor <= api)' /\ ListsAfterDrop'
  <2>1. \A k \in Lists : Past(memory'[k]) BY <1>0, <1>14 DEF Drop
  <2> QED BY <1>14, <2>1, <1>0, <1>1, <1>4 DEF Drop
<1>15. ASSUME NEW c \in Caller, Clear(c) PROVE (floor <= api)' /\ ListsAfterDrop'
  <2>1. \A k \in Lists : Past(stored'[k]) BY <1>0, <1>15 DEF Clear, TypeInv, Typed
  <2>2. held[c] = None BY <1>15 DEF Clear, Clearing, TypeInv, Located, Load, Loading
  <2>3. \A d \in Caller : At(d)' \in Lists => Past(held'[d])
    BY <1>15, <2>2, <1>0 DEF Clear, At, TypeInv, Typed
  <2> QED BY <1>15, <2>1, <2>3, <1>0, <1>1 DEF Clear
<1>16. ASSUME NEW c \in Caller, Cleared(c) PROVE (floor <= api)' /\ ListsAfterDrop'
  <2>1. UNCHANGED <<api, memory, stored>> BY <1>16 DEF Cleared
  <2>2. held[c] = None /\ held' = held BY <1>16, ClearedMoves
  <2>3. \A d \in Caller \ {c} : At(d)' = At(d) BY <1>16, ClearedMoves DEF At
  <2>4. CASE floor' = floor BY <2>1, <2>2, <2>3, <2>4, <1>0, <1>1
  <2>5. CASE floor' # floor
    <3>1. pc[c] = "clearAgain" /\ Undisturbed(c) /\ floor' = api /\ todo[c] = <<>>
      BY <1>16, <2>5 DEF Cleared
    <3>2. \A k \in Lists : memory[k] = None /\ stored[k] = None
      BY <3>1, DropLists DEF ListInv, Emptied, Clearing
    <3>3. \A d \in Caller : held[d] = None
      BY <2>2, <3>1 DEF Undisturbed, TypeInv, Located, Load, Loading
    <3> QED BY <1>0, <2>1, <2>2, <3>1, <3>2, <3>3 DEF ListsAfterDrop
  <2> QED BY <2>4, <2>5
<1>17. CASE Change
  BY <1>17, <1>0 DEF Change, ListsAfterDrop, At
<1>18. CASE Tick
  <2>1. \A k \in Lists : Past(memory'[k])
    BY <1>18, <1>0, AgedSeen DEF Tick, TypeInv, Typed
  <2>2. \A k \in Lists : Past(stored'[k])
    BY <1>18, <1>0, AgedSeen DEF Tick, TypeInv, Typed
  <2>3. \A c \in Caller : At(c)' \in Lists => Past(held'[c])
    BY <1>18, <1>0 DEF Tick, At, TypeInv, Typed, Version
  <2> QED BY <1>18, <2>1, <2>2, <2>3, <1>1 DEF Tick
<1>19. CASE Restart
  BY <1>19, <1>0, <1>1 DEF Restart
<1>20. CASE UNCHANGED vars BY <1>20, <1>0 DEF vars, ListsAfterDrop, At
<1> QED
  BY <1>2, <1>7, <1>8, <1>9, <1>10, <1>11, <1>12, <1>13, <1>14, <1>15, <1>16, <1>17,
     <1>18, <1>19, <1>20 DEF Next, Steps

\* InvalidateWorkspace that reports success, with no other call under way, leaves
\* no package or boost list from before it anywhere, and none comes back,
\* whatever fails or crashes before and after (InvalidateWorkspace,
\* cache.go:457-479, called twice at tenant.go:336-341).
THEOREM DropsAreComplete == Spec => []ListsAfterDrop
<1>1. Init => TypeInv /\ ListInv BY TypeInit, ListInit
<1>2. TypeInv /\ ListInv /\ [Next]_vars => (TypeInv /\ ListInv)'
  BY TypeStep, ExclusiveStep, EmptiedStep, ListStep DEF ListInv
<1>3. ListInv => ListsAfterDrop BY DEF ListInv
<1> QED BY <1>1, <1>2, <1>3, PTL DEF Spec

-------------------------------------------------------------------------------
(* How old an entry gets.  What is left of its lifetime bounds the age it    *)
(* can still reach: one lifetime in the store, a second one in memory.       *)

Within(e, bound) == Live(e) => e.age + e.left <= bound

AgeInv ==
    Prompt =>
        /\ \A k \in Kind : Within(memory[k], 2 * TTL) /\ Within(stored[k], TTL)
        /\ \A c \in Caller : held[c] # None =>
              held[c].age <= TTL /\ (pc[c] # "warm" => held[c].age = 0)

LEMMA AgeInit == Init => AgeInv
<1> SUFFICES ASSUME Init PROVE AgeInv OBVIOUS
<1>1. \A k \in Kind : memory[k] = None /\ stored[k] = None BY DEF Init
<1>2. \A c \in Caller : held[c] = None BY DEF Init
<1> QED BY <1>1, <1>2 DEF AgeInv, Within, Live

LEMMA AgedWithin ==
    ASSUME NEW e \in Entry \cup {None}, NEW b \in Nat, Within(e, b)
    PROVE  Within(Aged(e), b) /\ Within(AgedInStore(e), b)
<1>1. CASE e = None BY <1>1 DEF Aged, AgedInStore, Within, Live
<1>2. CASE e # None
  <2>1. e \in Entry /\ MaxAge \in Nat BY <1>2, TTLAssumption DEF MaxAge
  <2>2. /\ Aged(e) = [e EXCEPT !.age = Older(@), !.left = IF @ >= 0 THEN @ - 1 ELSE @]
        /\ Older(e.age) \in Nat /\ Older(e.age) <= e.age + 1
    BY <1>2, <2>1 DEF Aged, Older, Entry
  <2>3. /\ Aged(e).age = Older(e.age)
        /\ Aged(e).left = IF e.left >= 0 THEN e.left - 1 ELSE e.left
    BY <2>1, <2>2 DEF Entry
  <2>4. Within(Aged(e), b)
    BY <1>2, <2>1, <2>2, <2>3, TTLAssumption DEF Within, Live, Entry
  <2> QED BY <2>4 DEF AgedInStore, Within, Live
<1> QED BY <1>1, <1>2

LEMMA FreshWithin ==
    ASSUME NEW n \in Version, NEW b \in Nat, n.age <= b PROVE Within(Fresh(n), b + TTL)
BY TTLAssumption DEF Fresh, Within, Version

LEMMA AgeStep == TypeInv /\ AgeInv /\ [Next]_vars => AgeInv'
<1> SUFFICES ASSUME TypeInv, AgeInv, [Next]_vars, Prompt PROVE AgeInv'
  BY DEF AgeInv
<1> DEFINE Young(c) == held[c] # None =>
                          held[c].age <= TTL /\ (pc[c] # "warm" => held[c].age = 0)
<1> USE DEF cache, ghosts
<1>0. /\ TTL \in Nat \ {0}
      /\ memory \in [Kind -> Entry \cup {None}] /\ stored \in [Kind -> Entry \cup {None}]
      /\ \A k \in Kind : Within(memory[k], 2 * TTL) /\ Within(stored[k], TTL)
      /\ \A c \in Caller : Young(c)
  BY TTLAssumption DEF TypeInv, Typed, AgeInv
<1>1. ASSUME \A k \in Kind : Within(memory'[k], 2 * TTL) /\ Within(stored'[k], TTL),
             \A c \in Caller : Young(c)'
      PROVE  AgeInv'
  <2>1. \A k \in Kind : Within(memory[k], 2 * TTL)' /\ Within(stored[k], TTL)'
    BY <1>1 DEF Within, Live
  <2> QED BY <1>1, <2>1 DEF AgeInv
<1>2. ASSUME NEW c \in Caller, Starts(c) PROVE AgeInv'
  <2>1. PICK call, l, v : /\ call \in DOMAIN Loads /\ l \in {"peek", "fetch", "drop"}
                          /\ Begin(c, call, l, v) /\ (v # None => v.age = 0)
    <3>1. \A seen : New(seen).age = 0 BY DEF New
    <3>2. CASE StartLoads(c) BY <3>2, LoadsType DEF StartLoads
    <3>3. CASE StartUser(c) BY <3>1, <3>3, LoadsType DEF StartUser
    <3>4. CASE StartDrop(c) BY <3>4, LoadsType DEF StartDrop
    <3> QED BY <1>2, <3>2, <3>3, <3>4 DEF Starts
  <2>2. Young(c)' BY <2>1, <1>0 DEF Begin, TypeInv, Typed
  <2>3. \A d \in Caller \ {c} : Young(d)' BY <2>1, <1>0 DEF Begin, TypeInv, Typed
  <2> QED BY <2>1, <2>2, <2>3, <1>0, <1>1 DEF Begin
\* A load ends, or its caller moves on to where no longer lifetime starts.
<1>3. ASSUME NEW c \in Caller, NEW ok \in BOOLEAN, Loaded(c, ok) PROVE \A d \in Caller : Young(d)'
  <2>1. \A d \in Caller \ {c} : held'[d] = held[d] /\ pc'[d] = pc[d]
    BY <1>3, LoadedMoves DEF TypeInv, Typed
  <2>2. held'[c] = None BY <1>3, LoadedMoves
  <2> QED BY <2>1, <2>2, <1>0
<1>4. ASSUME NEW c \in Caller, NEW l, Go(c, l), pc[c] # "warm" PROVE \A d \in Caller : Young(d)'
  BY <1>4, <1>0 DEF Go, TypeInv, Typed
<1>5. ASSUME NEW c \in Caller, NEW l, NEW v, Carry(c, l, v), v.age \in Nat, v.age <= TTL,
             l # "warm" => v.age = 0
      PROVE  \A d \in Caller : Young(d)'
  BY <1>5, <1>0 DEF Carry, TypeInv, Typed
<1>6. ASSUME NEW c \in Caller, pc[c] \in {"warm", "set", "persist"}
      PROVE  /\ At(c) \in Kind /\ held[c] \in Version
             /\ Within(Fresh(held[c]), 2 * TTL)
             /\ pc[c] # "warm" => Within(Fresh(held[c]), TTL)
  <2>1. At(c) \in Kind BY <1>6, AtKind DEF Loading
  <2>2. held[c] # None /\ held[c] \in Version BY <1>6 DEF TypeInv, Typed, Located, Load
  <2>3. held[c].age <= TTL /\ (pc[c] # "warm" => held[c].age <= 0) BY <2>2, <1>0
  <2>4. Within(Fresh(held[c]), TTL + TTL) BY <2>2, <2>3, <1>0, FreshWithin
  <2>5. pc[c] # "warm" => Within(Fresh(held[c]), 0 + TTL) BY <2>2, <2>3, FreshWithin
  <2>6. TTL + TTL = 2 * TTL /\ 0 + TTL = TTL BY <1>0
  <2> QED BY <2>1, <2>2, <2>4, <2>5, <2>6
<1>7. ASSUME NEW c \in Caller, Peek(c) PROVE AgeInv'
  BY <1>7, <1>0, <1>1, <1>3, <1>4 DEF Peek
<1>8. ASSUME NEW c \in Caller, Evict(c) PROVE AgeInv'
  <2>1. \A k \in Kind : Within(memory'[k], 2 * TTL) BY <1>8, <1>0 DEF Evict, Within, Live
  <2> QED BY <1>8, <2>1, <1>0, <1>1, <1>4 DEF Evict
<1>9. ASSUME NEW c \in Caller, ReadStored(c) PROVE AgeInv'
  <2> DEFINE e == stored[At(c)]
  <2>1. CASE Live(e) /\ Carry(c, "warm", [seen |-> e.seen, age |-> e.age])
    <3>1. At(c) \in Kind BY <1>9, AtKind DEF ReadStored, Loading
    <3>2. e \in Entry /\ Within(e, TTL) BY <2>1, <3>1, <1>0 DEF Live
    <3>3. e.age \in Nat /\ e.age <= TTL
      BY <2>1, <3>2, <1>0 DEF Entry, Within, Live, MaxAge
    <3>4. \A d \in Caller : Young(d)' BY <2>1, <3>3, <1>5
    <3> QED BY <1>9, <3>4, <1>0, <1>1 DEF ReadStored
  <2>2. CASE \E l \in {"set", "fetch"} : Go(c, l)
    BY <1>9, <2>2, <1>0, <1>1, <1>4 DEF ReadStored
  <2> QED BY <1>9, <2>1, <2>2 DEF ReadStored
<1>10. ASSUME NEW c \in Caller, Warm(c) PROVE AgeInv'
  <2>1. \A k \in Kind : Within(memory'[k], 2 * TTL) BY <1>10, <1>0, <1>6 DEF Warm
  <2> QED BY <1>10, <2>1, <1>0, <1>1, <1>3 DEF Warm
<1>11. ASSUME NEW c \in Caller, Fetch(c) PROVE AgeInv'
  <2>1. New(api).age = 0 BY DEF New
  <2>2. New(api).age \in Nat /\ New(api).age <= TTL BY <2>1, <1>0
  <2>3. CASE Carry(c, "set", New(api)) BY <2>1, <2>2, <2>3, <1>5, <1>0, <1>1, <1>11 DEF Fetch
  <2>4. CASE Loaded(c, FALSE) BY <2>4, <1>3, <1>0, <1>1, <1>11 DEF Fetch
  <2> QED BY <1>11, <2>3, <2>4 DEF Fetch
<1>12. ASSUME NEW c \in Caller, Set(c) PROVE AgeInv'
  <2>1. \A k \in Kind : Within(memory'[k], 2 * TTL) BY <1>12, <1>0, <1>6 DEF Set
  <2>2. \A d \in Caller : Young(d)' BY <1>12, <1>4 DEF Set
  <2> QED BY <1>12, <2>1, <2>2, <1>0, <1>1 DEF Set
<1>13. ASSUME NEW c \in Caller, Persist(c) PROVE AgeInv'
  <2>1. \A k \in Kind : Within(stored'[k], TTL) BY <1>13, <1>0, <1>6 DEF Persist
  <2>2. \A d \in Caller : Young(d)' BY <1>13, <1>3 DEF Persist
  <2> QED BY <1>13, <2>1, <2>2, <1>0, <1>1 DEF Persist
<1>14. ASSUME NEW c \in Caller, Drop(c) PROVE AgeInv'
  <2>1. \A k \in Kind : Within(memory'[k], 2 * TTL) BY <1>14, <1>0 DEF Drop, Within, Live
  <2>2. \A d \in Caller : Young(d)' BY <1>14, <1>4 DEF Drop
  <2> QED BY <1>14, <2>1, <2>2, <1>0, <1>1 DEF Drop
<1>15. ASSUME NEW c \in Caller, Clear(c) PROVE AgeInv'
  <2>1. \A k \in Kind : Within(stored'[k], TTL) BY <1>15, <1>0 DEF Clear, Within, Live
  <2>2. held[c] = None BY <1>15 DEF Clear, Clearing, TypeInv, Located, Load, Loading
  <2>3. \A d \in Caller : Young(d)' BY <1>15, <2>2, <1>0 DEF Clear, TypeInv, Typed
  <2> QED BY <1>15, <2>1, <2>3, <1>0, <1>1 DEF Clear
<1>16. ASSUME NEW c \in Caller, Cleared(c) PROVE AgeInv'
  <2>1. held[c] = None /\ held' = held BY <1>16, ClearedMoves
  <2>2. \A d \in Caller \ {c} : pc'[d] = pc[d] BY <1>16, ClearedMoves
  <2> QED BY <1>16, <2>1, <2>2, <1>0, <1>1 DEF Cleared
<1>17. CASE Change BY <1>17, <1>0, <1>1 DEF Change
\* The clock moves while nobody carries anything.
<1>18. CASE Tick
  <2>1. \A k \in Kind : Within(Aged(memory[k]), 2 * TTL) BY <1>0, AgedWithin
  <2>2. \A k \in Kind : Within(AgedInStore(stored[k]), TTL) BY <1>0, AgedWithin
  <2>3. \A c \in Caller : held'[c] = None
    BY <1>18 DEF Tick, TypeInv, Located, Load, Loading
  <2> QED BY <1>18, <2>1, <2>2, <2>3, <1>1 DEF Tick
<1>19. CASE Restart
  <2>1. \A k \in Kind : Within(memory'[k], 2 * TTL) BY <1>19 DEF Restart, Within, Live
  <2> QED BY <1>19, <2>1, <1>0, <1>1 DEF Restart
<1>20. CASE UNCHANGED vars BY <1>20, <1>0, <1>1 DEF vars
<1> QED
  BY <1>2, <1>7, <1>8, <1>9, <1>10, <1>11, <1>12, <1>13, <1>14, <1>15, <1>16, <1>17,
     <1>18, <1>19, <1>20 DEF Next, Steps

\* No package list, boost list, feature or user is served more than two lifetimes
\* after the API, or the context, gave it, with any number of callers, faults and
\* crashes (GetPackages, GetBoosts, GetFeature, GetUser, cache.go:324-604).
THEOREM ServedYoung == Spec => []NoneServedTooOld
<1>1. Init => TypeInv /\ AgeInv BY TypeInit, AgeInit
<1>2. TypeInv /\ AgeInv /\ [Next]_vars => (TypeInv /\ AgeInv)' BY TypeStep, AgeStep
<1>3. TypeInv /\ AgeInv => NoneServedTooOld
  BY TTLAssumption
  DEF TypeInv, Typed, AgeInv, Within, NoneServedTooOld, Live, Entry, MaxAge
<1> QED BY <1>1, <1>2, <1>3, PTL DEF Spec
===============================================================================
