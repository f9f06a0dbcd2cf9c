-------------------------- MODULE ConfigStoreProofs --------------------------
(***************************************************************************)
(* Theorems about ConfigStore, for every set of users, workers, calls and  *)
(* faults, and every bound.                                                *)
(***************************************************************************)
EXTENDS ConfigStore, TLAPS, SequenceTheorems

-----------------------------------------------------------------------------
(* The inductive invariant.                                                *)

Of(id) == {b \in parts : b[1] = id}
Row_(id) == rows[id] # NoRow
Existing(id) == {i \in {id} : Row_(i)}
OwnedBy(user) == {id \in Ids : Row_(id) /\ rows[id].owner = user}
Done == {log[i].by : i \in DOMAIN log}

\* A creation whose row is not committed yet, and its id.
Creating(w) ==
    pc[w] \in {"insertParts", "commit"} /\ KindOf(w) = "create"
Closing(w) ==
    pc[w] \in {"remove", "cascade", "cascadeWipe", "commit"} /\ KindOf(w) = "close"

\* An id that has been committed once; it will not be given again.
Known(id) == id \in 1..serial /\ \A v \in Workers : Creating(v) => target[v] # id

\* id is known, and is user's as long as it has a row.
Theirs(id, user) == Known(id) /\ (Row_(id) => rows[id].owner = user)

Untouched(w) == holds[w] = {} /\ wiped[w] = {}

CreateLocal(w) ==
    /\ pc[w] \in {"insert", "insertParts", "commit"}
    /\ pc[w] = "insert" => Untouched(w)
    /\ pc[w] # "insert" =>
         /\ holds[w] = {target[w]} /\ wiped[w] = {}
         /\ target[w] \in 1..serial /\ ~Row_(target[w])
         /\ Request(w).user \in accounts

\* The row is locked from the update on, and its components are all deleted
\* before the new ones are inserted.
UpdateLocal(w) ==
    /\ pc[w] \in {"check", "update", "look", "wipe", "insertParts", "recheck", "commit"}
    /\ target[w] = Request(w).id
    /\ pc[w] \in {"check", "update"} => Untouched(w)
    /\ pc[w] \in {"look", "wipe"} => wiped[w] = {}
    /\ pc[w] # "check" => Theirs(target[w], Request(w).user)
    /\ pc[w] \in {"look", "wipe", "insertParts", "recheck", "commit"} =>
         holds[w] = Existing(target[w])
    /\ pc[w] = "wipe" => seen[w] \subseteq {target[w]} \X RequestIds
    /\ pc[w] = "wipe" => \A id \in holds[w] : Of(id) \subseteq seen[w]
    /\ wiped[w] \subseteq {target[w]} \X RequestIds
    /\ pc[w] \in {"insertParts", "recheck", "commit"} =>
         \A id \in holds[w] : Of(id) \subseteq wiped[w]
    /\ pc[w] = "commit" => Row_(target[w])

\* The components are deleted first without a lock on the row, and those
\* inserted meanwhile once more by the cascade, with the lock.
DeleteLocal(w) ==
    /\ pc[w] \in {"check", "look", "wipe", "remove", "cascade", "cascadeWipe", "commit"}
    /\ target[w] = Request(w).id
    /\ pc[w] \in {"check", "look"} => Untouched(w)
    /\ pc[w] \in {"wipe", "remove"} => holds[w] = {}
    /\ pc[w] # "check" => Theirs(target[w], Request(w).user)
    /\ pc[w] = "remove" => todo[w] = {target[w]}
    /\ pc[w] \in {"cascade", "cascadeWipe", "commit"} => holds[w] = Existing(target[w])
    /\ pc[w] \in {"wipe", "cascadeWipe"} => seen[w] \subseteq {target[w]} \X RequestIds
    /\ wiped[w] \subseteq {target[w]} \X RequestIds
    /\ pc[w] = "cascadeWipe" =>
         \A id \in holds[w] : Of(id) \subseteq seen[w] \cup wiped[w]
    /\ pc[w] = "commit" => \A id \in holds[w] : Of(id) \subseteq wiped[w]

CloseLocal(w) ==
    /\ pc[w] \in {"lockUser", "remove", "cascade", "cascadeWipe", "commit"}
    /\ pc[w] = "lockUser" => Untouched(w)
    /\ pc[w] \in {"remove", "cascade"} => wiped[w] = {}
    /\ pc[w] = "remove" =>
         /\ \A id \in todo[w] : Theirs(id, Request(w).user)
         /\ OwnedBy(Request(w).user) \subseteq todo[w] \cup holds[w]
    /\ holds[w] \subseteq OwnedBy(Request(w).user)
    /\ pc[w] \in {"cascade", "cascadeWipe", "commit"} =>
         OwnedBy(Request(w).user) \subseteq holds[w]
    /\ pc[w] = "cascadeWipe" => seen[w] \subseteq holds[w] \X RequestIds
    /\ wiped[w] \subseteq holds[w] \X RequestIds
    /\ pc[w] = "cascadeWipe" =>
         \A id \in holds[w] : Of(id) \subseteq seen[w] \cup wiped[w]
    /\ pc[w] = "commit" => \A id \in holds[w] : Of(id) \subseteq wiped[w]

ListLocal(w) ==
    /\ pc[w] \in {"listRows", "listParts", "listed"}
    /\ Untouched(w)
    /\ pc[w] = "listParts" => \A id \in todo[w] : listing[w][id] # NoRow

Local(w) ==
    /\ pc[w] = "idle" => Untouched(w)
    /\ pc[w] # "idle" =>
         /\ req[w] \in DOMAIN requests
         /\ KindOf(w) = "create" => CreateLocal(w)
         /\ KindOf(w) = "update" => UpdateLocal(w)
         /\ KindOf(w) = "delete" => DeleteLocal(w)
         /\ KindOf(w) = "close"  => CloseLocal(w)
         /\ KindOf(w) = "list"   => ListLocal(w)

\* Two workers never hold one row, serve one request, or create a
\* configuration for an account one of them deletes.
Apart(v, w) ==
    /\ holds[v] \cap holds[w] = {}
    /\ pc[v] # "idle" /\ pc[w] # "idle" => req[v] # req[w]
    /\ Creating(v) /\ Closing(w) => Request(v).user # Request(w).user

RowsKnown == \A id \in Ids : Row_(id) => Known(id) /\ rows[id].name \in DOMAIN requests

\* A request that took effect is over.
RequestsOnce ==
    /\ Done \subseteq DOMAIN requests /\ answered \subseteq DOMAIN requests
    /\ \A w \in Workers : pc[w] # "idle" => req[w] \notin Done \cup answered

\* What was answered to n stays so.
Kept(n) ==
    /\ requests[n].kind \in {"create", "update"} =>
         \E i \in DOMAIN log : log[i].by = n /\ log[i].on # {}
    /\ requests[n].kind = "delete" => Known(requests[n].id) /\ ~Row_(requests[n].id)
    /\ requests[n].kind = "close" =>
         /\ requests[n].user \notin accounts
         /\ OwnedBy(requests[n].user) = {}

Shared ==
    /\ RowsKnown
    /\ SavedTogether
    /\ RequestsOnce
    /\ \A n \in answered \ lost : Kept(n)

Inv ==
    /\ TypeOK
    /\ \A w \in Workers : Local(w)
    /\ \A v, w \in Workers : v # w => Apart(v, w)
    /\ Shared

-----------------------------------------------------------------------------
(* Frames: what a step of one worker leaves to another.                    *)

\* The worker's own variables.
Still(v) ==
    /\ pc'[v] = pc[v] /\ req'[v] = req[v] /\ target'[v] = target[v]
    /\ seen'[v] = seen[v] /\ todo'[v] = todo[v] /\ holds'[v] = holds[v]
    /\ wiped'[v] = wiped[v] /\ listing'[v] = listing[v]

Others(w) == \A v \in Workers \ {w} : Still(v)

RequestsKept ==
    /\ DOMAIN requests \subseteq DOMAIN requests'
    /\ \A n \in DOMAIN requests : requests'[n] = requests[n]

\* What worker v relies on while another one takes a step.
Frame(v) ==
    /\ Still(v)
    /\ RequestsKept
    /\ serial \in Nat /\ serial' \in Nat /\ serial <= serial'
    /\ \A id \in Ids : Known(id) =>
         /\ Known(id)'
         /\ rows'[id] # NoRow => Row_(id) /\ rows'[id].owner = rows[id].owner
    /\ \A id \in holds[v] : /\ rows'[id] # NoRow <=> Row_(id)
                            /\ rows'[id] # NoRow => rows'[id].owner = rows[id].owner
                            /\ Of(id)' \subseteq Of(id)
    /\ Creating(v) => Request(v).user \in accounts'
    /\ Closing(v) => OwnedBy(Request(v).user)' \subseteq OwnedBy(Request(v).user)

LEMMA RequestKept ==
    ASSUME RequestsKept, NEW v \in Workers, Still(v), req[v] \in DOMAIN requests
    PROVE  Request(v)' = Request(v) /\ KindOf(v)' = KindOf(v) /\ req'[v] \in DOMAIN requests'
BY DEF RequestsKept, Still, Request, KindOf

LEMMA TheirsKept ==
    ASSUME NEW v \in Workers, Frame(v), NEW id \in Ids, NEW user, Theirs(id, user)
    PROVE  Theirs(id, user)'
BY DEF Frame, Theirs, Row_

LEMMA CreateFrame ==
    ASSUME TypeOK, NEW v \in Workers, Frame(v), pc[v] # "idle", req[v] \in DOMAIN requests,
           KindOf(v) = "create", CreateLocal(v)
    PROVE  CreateLocal(v)'
<1>1. Still(v) /\ Request(v)' = Request(v)
    BY RequestKept DEF Frame
<1>2. CASE pc[v] = "insert"
    BY <1>1, <1>2 DEF CreateLocal, Untouched, Still
<1>3. CASE pc[v] # "insert"
    <2>1. Creating(v)
        BY <1>3 DEF CreateLocal, Creating
    <2>2. target[v] \in holds[v] /\ ~Row_(target[v])
        BY <1>3 DEF CreateLocal
    <2>3. ~Row_(target[v])'
        BY <1>1, <2>2 DEF Frame, Row_, Still
    <2>4. target[v] \in 1..serial'
        BY <1>3 DEF CreateLocal, Frame
    <2>5. Request(v).user \in accounts'
        BY <2>1 DEF Frame
    <2> QED
        BY <1>1, <1>3, <2>3, <2>4, <2>5 DEF CreateLocal, Still
<1> QED
    BY <1>2, <1>3

LEMMA UpdateFrame ==
    ASSUME TypeOK, NEW v \in Workers, Frame(v), pc[v] # "idle", req[v] \in DOMAIN requests,
           KindOf(v) = "update", UpdateLocal(v)
    PROVE  UpdateLocal(v)'
<1>1. Still(v) /\ Request(v)' = Request(v)
    BY RequestKept DEF Frame
<1>2. target[v] \in Ids
    <2>1. requests[req[v]] \in Calls
        BY DEF TypeOK
    <2> QED
        BY <2>1, ConfigStoreAssumption DEF UpdateLocal, Request, Call
<1>3. pc[v] # "check" => Theirs(target[v], Request(v).user)'
    BY <1>1, <1>2, TheirsKept DEF UpdateLocal, Still
<1>4. pc[v] # "check" /\ holds[v] = Existing(target[v]) =>
          Existing(target[v])' = holds[v]
    <2> SUFFICES ASSUME pc[v] # "check", holds[v] = Existing(target[v])
                 PROVE  Row_(target[v])' <=> Row_(target[v])
        BY <1>1 DEF Existing, Still
    <2>1. Known(target[v])
        BY DEF UpdateLocal, Theirs
    <2>2. CASE Row_(target[v])
        BY <1>1, <2>2 DEF Existing, Frame, Row_, Still
    <2>3. CASE ~Row_(target[v])
        BY <1>1, <1>2, <2>1, <2>3 DEF Frame, Row_, Still
    <2> QED
        BY <2>2, <2>3
<1>5. \A id \in holds[v] : Of(id)' \subseteq Of(id)
    BY DEF Frame
<1>6. pc[v] = "commit" => Row_(target[v])'
    <2> SUFFICES ASSUME pc[v] = "commit"
                 PROVE  Row_(target[v])'
        OBVIOUS
    <2>1. target[v] \in holds[v] /\ Row_(target[v])
        BY DEF UpdateLocal, Existing
    <2> QED
        BY <1>1, <2>1 DEF Frame, Row_, Still
<1>7. /\ pc'[v] # "check" => Theirs(target[v], Request(v).user)'
      /\ pc'[v] \in {"look", "wipe", "insertParts", "recheck", "commit"} =>
           holds'[v] = Existing(target[v])'
      /\ pc'[v] = "commit" => Row_(target[v])'
    BY <1>1, <1>3, <1>4, <1>6 DEF UpdateLocal, Still
<1>8. /\ pc'[v] = "wipe" => \A id \in holds'[v] : Of(id)' \subseteq seen'[v]
      /\ pc'[v] \in {"insertParts", "recheck", "commit"} =>
           \A id \in holds'[v] : Of(id)' \subseteq wiped'[v]
    BY <1>1, <1>5 DEF UpdateLocal, Still
<1>9. /\ target'[v] = Request(v)'.id
      /\ pc'[v] \in {"check", "update"} => Untouched(v)'
      /\ pc'[v] \in {"look", "wipe"} => wiped'[v] = {}
      /\ pc'[v] = "wipe" => seen'[v] \subseteq {target'[v]} \X RequestIds
      /\ wiped'[v] \subseteq {target'[v]} \X RequestIds
      /\ pc'[v] \in {"check", "update", "look", "wipe", "insertParts", "recheck", "commit"}
    BY <1>1 DEF UpdateLocal, Still, Untouched
<1>10. (Request(v).user)' = Request(v).user /\ (target[v])' = target[v]
    BY <1>1 DEF Still
<1> QED
    BY <1>7, <1>8, <1>9, <1>10 DEF UpdateLocal

LEMMA ExistingKept ==
    ASSUME NEW v \in Workers, Frame(v), target[v] \in Ids, Known(target[v]),
           holds[v] = Existing(target[v])
    PROVE  holds'[v] = Existing(target[v])'
<1>1. holds'[v] = holds[v] /\ target'[v] = target[v]
    BY DEF Frame, Still
<1>2. CASE Row_(target[v])
    BY <1>1, <1>2 DEF Existing, Frame, Row_
<1>3. CASE ~Row_(target[v])
    BY <1>1, <1>3 DEF Existing, Frame, Row_
<1> QED
    BY <1>2, <1>3

LEMMA TargetIsId ==
    ASSUME TypeOK, NEW v \in Workers, req[v] \in DOMAIN requests,
           target[v] = Request(v).id
    PROVE  target[v] \in Ids
<1>1. requests[req[v]] \in Calls
    BY DEF TypeOK
<1> QED
    BY <1>1, ConfigStoreAssumption DEF Request, Call

LEMMA DeleteFrame ==
    ASSUME TypeOK, NEW v \in Workers, Frame(v), pc[v] # "idle", req[v] \in DOMAIN requests,
           KindOf(v) = "delete", DeleteLocal(v)
    PROVE  DeleteLocal(v)'
<1>1. Still(v) /\ Request(v)' = Request(v)
    BY RequestKept DEF Frame
<1>2. target[v] \in Ids
    BY TargetIsId DEF DeleteLocal
<1>3. pc'[v] # "check" => Theirs(target[v], Request(v).user)'
    BY <1>1, <1>2, TheirsKept DEF DeleteLocal, Still
<1>4. pc'[v] \in {"cascade", "cascadeWipe", "commit"} => holds'[v] = Existing(target[v])'
    BY <1>1, <1>2, ExistingKept DEF DeleteLocal, Still, Theirs
<1>5. \A id \in holds[v] : Of(id)' \subseteq Of(id)
    BY DEF Frame
<1>6. /\ pc'[v] = "cascadeWipe" =>
           \A id \in holds'[v] : Of(id)' \subseteq seen'[v] \cup wiped'[v]
      /\ pc'[v] = "commit" => \A id \in holds'[v] : Of(id)' \subseteq wiped'[v]
    BY <1>1, <1>5 DEF DeleteLocal, Still
<1>7. /\ pc'[v] \in {"check", "look", "wipe", "remove", "cascade", "cascadeWipe", "commit"}
      /\ target'[v] = Request(v)'.id
      /\ pc'[v] \in {"check", "look"} => Untouched(v)'
      /\ pc'[v] \in {"wipe", "remove"} => holds'[v] = {}
      /\ pc'[v] = "remove" => todo'[v] = {target'[v]}
      /\ pc'[v] \in {"wipe", "cascadeWipe"} => seen'[v] \subseteq {target'[v]} \X RequestIds
      /\ wiped'[v] \subseteq {target'[v]} \X RequestIds
    BY <1>1 DEF DeleteLocal, Still, Untouched
<1> QED
    BY <1>1, <1>3, <1>4, <1>6, <1>7 DEF DeleteLocal, Still

LEMMA CloseFrame ==
    ASSUME TypeOK, NEW v \in Workers, Frame(v), pc[v] # "idle", req[v] \in DOMAIN requests,
           KindOf(v) = "close", CloseLocal(v)
    PROVE  CloseLocal(v)'
<1> DEFINE user == Request(v).user
<1>1. Still(v) /\ Request(v)' = Request(v)
    BY RequestKept DEF Frame
<1>2. todo[v] \subseteq Ids /\ holds[v] \subseteq Ids
    BY DEF TypeOK
<1>3. pc'[v] = "remove" => \A id \in todo'[v] : Theirs(id, user)'
    BY <1>1, <1>2, TheirsKept DEF CloseLocal, Still
<1>4. pc'[v] # "lockUser" => OwnedBy(user)' \subseteq OwnedBy(user)
    BY <1>1 DEF Frame, CloseLocal, Closing, Still
<1>5. holds'[v] \subseteq OwnedBy(user)'
    BY <1>1, <1>2 DEF Frame, CloseLocal, OwnedBy, Row_, Still
<1>6. \A id \in holds[v] : Of(id)' \subseteq Of(id)
    BY DEF Frame
<1>7. /\ pc'[v] = "cascadeWipe" =>
           \A id \in holds'[v] : Of(id)' \subseteq seen'[v] \cup wiped'[v]
      /\ pc'[v] = "commit" => \A id \in holds'[v] : Of(id)' \subseteq wiped'[v]
    BY <1>1, <1>6 DEF CloseLocal, Still
<1>8. /\ pc'[v] = "remove" => OwnedBy(user)' \subseteq todo'[v] \cup holds'[v]
      /\ pc'[v] \in {"cascade", "cascadeWipe", "commit"} => OwnedBy(user)' \subseteq holds'[v]
    BY <1>1, <1>4 DEF CloseLocal, Still
<1>9. /\ pc'[v] \in {"lockUser", "remove", "cascade", "cascadeWipe", "commit"}
      /\ pc'[v] = "lockUser" => Untouched(v)'
      /\ pc'[v] \in {"remove", "cascade"} => wiped'[v] = {}
      /\ pc'[v] = "cascadeWipe" => seen'[v] \subseteq holds'[v] \X RequestIds
      /\ wiped'[v] \subseteq holds'[v] \X RequestIds
    BY <1>1 DEF CloseLocal, Still, Untouched
<1> QED
    BY <1>3, <1>5, <1>7, <1>8, <1>9 DEF CloseLocal

LEMMA ListFrame ==
    ASSUME NEW v \in Workers, Frame(v), ListLocal(v)
    PROVE  ListLocal(v)'
BY DEF Frame, Still, ListLocal, Untouched

LEMMA FrameLocal ==
    ASSUME TypeOK, NEW v \in Workers, Frame(v), Local(v)
    PROVE  Local(v)'
<1>1. CASE pc[v] = "idle"
    BY <1>1 DEF Frame, Still, Local, Untouched
<1>2. CASE pc[v] # "idle"
    <2>1. req[v] \in DOMAIN requests
        BY <1>2 DEF Local
    <2>2. KindOf(v)' = KindOf(v) /\ req'[v] \in DOMAIN requests' /\ pc'[v] = pc[v]
        BY <2>1, RequestKept DEF Frame, Still
    <2>3. KindOf(v) = "create" => CreateLocal(v)'
        BY <1>2, <2>1, CreateFrame DEF Local
    <2>4. KindOf(v) = "update" => UpdateLocal(v)'
        BY <1>2, <2>1, UpdateFrame DEF Local
    <2>5. KindOf(v) = "delete" => DeleteLocal(v)'
        BY <1>2, <2>1, DeleteFrame DEF Local
    <2>6. KindOf(v) = "close" => CloseLocal(v)'
        BY <1>2, <2>1, CloseFrame DEF Local
    <2>7. KindOf(v) = "list" => ListLocal(v)'
        BY <1>2, ListFrame DEF Local
    <2> QED
        BY <1>2, <2>2, <2>3, <2>4, <2>5, <2>6, <2>7 DEF Local
<1> QED
    BY <1>1, <1>2

-----------------------------------------------------------------------------
(* Steps that change neither the tables nor the history.                   *)

\* A statement of worker w that commits nothing.
Quiet(w) ==
    /\ Others(w)
    /\ UNCHANGED <<tables, serial, requests, log>>
    /\ \/ UNCHANGED <<answered, lost>>
       \/ /\ pc'[w] = "idle"
          /\ answered' \subseteq answered \cup {req[w]}
          /\ lost' = lost \cup {req[w]}
    /\ pc[w] # "idle"
    /\ pc'[w] # "idle" => req'[w] = req[w]
    /\ Creating(w)' => Creating(w) /\ target'[w] = target[w]
    /\ Closing(w)' => \A v \in Workers \ {w} :
                        Creating(v) => Request(v).user # Request(w).user
    /\ \A v \in Workers \ {w} : holds'[w] \cap holds[v] = {}

LEMMA QuietFrame ==
    ASSUME Inv, NEW w \in Workers, Quiet(w), NEW v \in Workers \ {w}
    PROVE  Frame(v) /\ (Creating(v)' <=> Creating(v)) /\ (Closing(v)' <=> Closing(v))
<1>1. Still(v) /\ RequestsKept
    BY DEF Quiet, Others, RequestsKept
<1>2. \A x \in Workers \ {w} : Creating(x)' <=> Creating(x)
    BY DEF Quiet, Others, Still, Creating, KindOf, Request
<1>3. Closing(v)' <=> Closing(v)
    BY <1>1 DEF Quiet, Still, Closing, KindOf, Request
<1>4. \A x \in Workers \ {w} : target'[x] = target[x]
    BY DEF Quiet, Others, Still
<1>5. \A id \in Ids : Known(id) => Known(id)'
    <2> SUFFICES ASSUME NEW id \in Ids, Known(id), NEW x \in Workers, Creating(x)'
                 PROVE  target'[x] # id
        BY DEF Quiet, Known
    <2>1. Creating(x) /\ target'[x] = target[x]
        BY <1>2, <1>4 DEF Quiet
    <2> QED
        BY <2>1 DEF Known
<1>6. \A id \in Ids : (rows'[id] # NoRow <=> Row_(id)) /\ rows'[id] = rows[id] /\ Of(id)' = Of(id)
    BY DEF Quiet, tables, Row_, Of
<1>7. Creating(v) => Request(v).user \in accounts'
    <2> SUFFICES ASSUME Creating(v) PROVE Request(v).user \in accounts
        BY DEF Quiet, tables
    <2>1. Local(v)
        BY DEF Inv
    <2> QED
        BY <2>1 DEF Local, CreateLocal, Creating
<1>8. OwnedBy(Request(v).user)' = OwnedBy(Request(v).user)
    <2>1. (Request(v).user)' = Request(v).user
        BY <1>1 DEF Quiet, Still, Request
    <2> QED
        BY <2>1 DEF Quiet, tables, OwnedBy, Row_
<1>9. serial \in Nat /\ serial' \in Nat /\ serial <= serial'
    BY ConfigStoreAssumption DEF Quiet, Inv, TypeOK
<1>10. holds[v] \subseteq Ids
    BY DEF Inv, TypeOK
<1>11. Frame(v)
    BY <1>1, <1>5, <1>6, <1>7, <1>8, <1>9, <1>10 DEF Frame
<1> QED
    BY <1>2, <1>3, <1>11

\* It keeps the invariant, when its own part of it is kept.
LEMMA QuietKeeps ==
    ASSUME Inv, TypeOK', NEW w \in Workers, Quiet(w), Local(w)'
    PROVE  Inv'
<1>1. \A v \in Workers : Local(v)'
    BY QuietFrame, FrameLocal DEF Inv
<1>2. \A v \in Workers \ {w} : (Creating(v)' <=> Creating(v)) /\ (Closing(v)' <=> Closing(v))
    BY QuietFrame
<1>3. \A v \in Workers \ {w} :
         /\ pc'[v] = pc[v] /\ req'[v] = req[v] /\ holds'[v] = holds[v]
         /\ Request(v)' = Request(v)
    BY DEF Quiet, Others, Still, Request
<1>4. pc'[w] # "idle" => req'[w] = req[w] /\ Request(w)' = Request(w)
    BY DEF Quiet, Request
<1>5. \A v \in Workers \ {w} : Apart(v, w)' /\ Apart(w, v)'
    <2> SUFFICES ASSUME NEW v \in Workers \ {w} PROVE Apart(v, w)' /\ Apart(w, v)'
        OBVIOUS
    <2>1. Apart(v, w) /\ Apart(w, v)
        BY DEF Inv
    <2>2. holds'[v] \cap holds'[w] = {}
        BY <1>3 DEF Quiet
    <2>3. pc'[v] # "idle" /\ pc'[w] # "idle" => req'[v] # req'[w]
        BY <1>3, <1>4, <2>1 DEF Quiet, Apart
    <2>4. Creating(v)' /\ Closing(w)' => Request(v)'.user # Request(w)'.user
        <3>1. Closing(w)' => pc'[w] # "idle"
            BY DEF Closing
        <3> QED
            BY <1>2, <1>3, <1>4, <3>1 DEF Quiet
    <2>5. Creating(w)' /\ Closing(v)' => Request(w)'.user # Request(v)'.user
        <3>1. Creating(w)' => pc'[w] # "idle" /\ Creating(w)
            BY DEF Quiet, Creating
        <3> QED
            BY <1>2, <1>3, <1>4, <2>1, <3>1 DEF Apart
    <2> QED
        BY <2>2, <2>3, <2>4, <2>5 DEF Apart
<1>6. \A v, x \in Workers : v # x => Apart(v, x)'
    <2> SUFFICES ASSUME NEW v \in Workers \ {w}, NEW x \in Workers \ {w}, v # x
                 PROVE  Apart(v, x)'
        BY <1>5
    <2>1. Apart(v, x)
        BY DEF Inv
    <2> QED
        BY <1>2, <1>3, <2>1 DEF Apart
<1>7. \A id \in Ids : Known(id) => Known(id)'
    <2> SUFFICES ASSUME NEW id \in Ids, Known(id), NEW x \in Workers, Creating(x)'
                 PROVE  target'[x] # id
        BY DEF Quiet, Known
    <2>1. Creating(x) /\ target'[x] = target[x]
        BY <1>2 DEF Quiet, Others, Still
    <2> QED
        BY <2>1 DEF Known
<1>8. RowsKnown'
    BY <1>7 DEF Inv, Shared, RowsKnown, Row_, Quiet, tables
<1>9. SavedTogether'
    BY DEF Inv, Shared, SavedTogether, PartsOf, Quiet, tables
<1>10. RequestsOnce'
    <2>1. Done' = Done /\ requests' = requests
        BY DEF Quiet, Done
    <2>2. \A v \in Workers : pc'[v] # "idle" => pc[v] # "idle" /\ req'[v] = req[v]
        BY <1>3 DEF Quiet
    <2>3. CASE answered' = answered
        BY <2>1, <2>2, <2>3 DEF Inv, Shared, RequestsOnce
    <2>4. CASE pc'[w] = "idle" /\ answered' \subseteq answered \cup {req[w]}
        <3>1. answered' \subseteq DOMAIN requests
            BY <2>4 DEF Quiet, Inv, Shared, RequestsOnce, Local
        <3>2. \A v \in Workers : pc'[v] # "idle" => pc[v] # "idle" /\ req[v] # req[w]
            BY <1>3, <2>4 DEF Quiet, Inv, Apart
        <3> QED
            BY <2>1, <2>2, <2>4, <3>1, <3>2 DEF Inv, Shared, RequestsOnce
    <2> QED
        BY <2>3, <2>4 DEF Quiet
<1>11. \A n \in answered' \ lost' : Kept(n)'
    <2> SUFFICES ASSUME NEW n \in answered \ lost PROVE Kept(n)'
        BY DEF Quiet
    <2>1. Kept(n) /\ n \in DOMAIN requests
        BY DEF Inv, Shared, RequestsOnce
    <2>2. requests[n].kind = "delete" => requests[n].id \in Ids
        <3>1. requests[n] \in Calls
            BY <2>1 DEF Inv, TypeOK
        <3> QED
            BY <3>1, ConfigStoreAssumption DEF Call
    <2>3. requests[n].kind = "delete" => Known(requests[n].id)' /\ ~Row_(requests[n].id)'
        BY <1>7, <2>1, <2>2 DEF Kept, Row_, Quiet, tables
    <2>4. OwnedBy(requests[n].user)' = OwnedBy(requests[n].user)
        BY DEF OwnedBy, Row_, Quiet, tables
    <2> QED
        BY <2>1, <2>3, <2>4 DEF Kept, Quiet, tables
<1> QED
    BY <1>1, <1>6, <1>8, <1>9, <1>10, <1>11 DEF Inv, Shared

LEMMA InvInit == Init => Inv
<1> SUFFICES ASSUME Init PROVE Inv
    OBVIOUS
<1>1. TypeOK
    <2>1. requests \in Seq(Calls) /\ Len(requests) = 0 /\ log \in Seq(Commits)
        BY DEF Init
    <2>2. listing \in [Workers -> [Ids -> Entry \cup {NoRow}]]
        BY DEF Init, NoListing
    <2>3. serial \in 0..MaxIds /\ Len(requests) <= MaxRequests
        BY <2>1, ConfigStoreAssumption DEF Init
    <2>4. /\ req \in [Workers -> 0..MaxRequests]
          /\ target \in [Workers -> 0..MaxIds]
        BY ConfigStoreAssumption DEF Init
    <2> QED
        BY <2>1, <2>2, <2>3, <2>4 DEF Init, TypeOK, PcState
<1>2. \A w \in Workers : Local(w)
    BY DEF Init, Local, Untouched
<1>3. \A v, w \in Workers : Apart(v, w)
    BY DEF Init, Apart, Creating
<1>4. Shared
    BY DEF Init, Shared, RowsKnown, SavedTogether, PartsOf, RequestsOnce, Done, Row_
<1> QED
    BY <1>1, <1>2, <1>3, <1>4 DEF Inv

LEMMA RollbackKeeps ==
    ASSUME Inv, NEW w \in Workers, pc[w] # "idle", Rollback(w)
    PROVE  Inv'
<1> USE DEF Rollback, EndTransaction
<1>1. TypeOK'
    <2>1. /\ pc' \in [Workers -> PcState]
          /\ seen' \in [Workers -> SUBSET Batches] /\ todo' \in [Workers -> SUBSET Ids]
          /\ holds' \in [Workers -> SUBSET Ids] /\ wiped' \in [Workers -> SUBSET Batches]
        BY DEF Inv, TypeOK, PcState
    <2>2. req' \in [Workers -> 0..MaxRequests] /\ target' \in [Workers -> 0..MaxIds]
        BY ConfigStoreAssumption DEF Inv, TypeOK
    <2>3. listing' \in [Workers -> [Ids -> Entry \cup {NoRow}]]
        <3>1. NoListing \in [Ids -> Entry \cup {NoRow}]
            BY DEF NoListing
        <3> QED
            BY <3>1 DEF Inv, TypeOK
    <2> QED
        BY <2>1, <2>2, <2>3 DEF Inv, TypeOK, tables, history
<1>2. pc'[w] = "idle" /\ holds'[w] = {} /\ wiped'[w] = {}
    BY DEF Inv, TypeOK
<1>3. Others(w)
    BY DEF Inv, TypeOK, Others, Still
<1>4. Quiet(w)
    BY <1>2, <1>3 DEF Quiet, Creating, Closing, history
<1>5. Local(w)'
    BY <1>2 DEF Local, Untouched
<1> QED
    BY <1>1, <1>4, <1>5, QuietKeeps

\* A step of a transaction to its next statement.
LEMMA MoveQuiet ==
    ASSUME Inv, NEW w \in Workers, pc[w] # "idle", Others(w),
           UNCHANGED <<Lasting, req, target>>,
           KindOf(w) = "create" => pc[w] = "insertParts",
           KindOf(w) = "close" => pc[w] # "lockUser",
           \A v \in Workers \ {w} : holds'[w] \cap holds[v] = {}
    PROVE  Quiet(w)
<1>1. Request(w)' = Request(w) /\ KindOf(w)' = KindOf(w)
    BY DEF Lasting, Request, KindOf
<1>2. Creating(w)' => Creating(w) /\ target'[w] = target[w]
    BY <1>1 DEF Creating
<1>3. Closing(w)' => Closing(w)
    BY <1>1 DEF Inv, Local, CloseLocal, Closing
<1>4. Closing(w) => \A v \in Workers \ {w} :
                        Creating(v) => Request(v).user # Request(w).user
    BY DEF Inv, Apart
<1> QED
    BY <1>2, <1>3, <1>4 DEF Quiet, Lasting, history

LEMMA QuietKnown ==
    ASSUME Inv, NEW w \in Workers, Quiet(w), NEW id \in Ids, NEW user, Theirs(id, user)
    PROVE  Theirs(id, user)'
<1>1. \A x \in Workers : Creating(x)' => Creating(x) /\ target'[x] = target[x]
    BY QuietFrame DEF Quiet, Others, Still
<1>2. Known(id)'
    BY <1>1 DEF Quiet, Known, Theirs
<1> QED
    BY <1>2 DEF Theirs, Quiet, tables, Row_

LEMMA KindIsKind ==
    ASSUME TypeOK, NEW w \in Workers, req[w] \in DOMAIN requests
    PROVE  KindOf(w) \in Kinds
<1>1. requests[req[w]] \in Calls
    BY DEF TypeOK
<1> QED
    BY <1>1, ConfigStoreAssumption DEF KindOf, Request, Call

\* A row has been committed under its id.
LEMMA RowIsKnown ==
    ASSUME Inv, NEW id \in Ids, Row_(id)
    PROVE  Theirs(id, rows[id].owner)
BY DEF Inv, Shared, RowsKnown, Theirs

LEMMA CheckKeeps ==
    ASSUME Inv, NEW w \in Workers, Check(w)
    PROVE  Inv'
<1> DEFINE user == Request(w).user
<1>1. pc[w] = "check" /\ Local(w) /\ req[w] \in DOMAIN requests
    BY DEF Check, Inv, Local
<1>2. KindOf(w) \in {"update", "delete"} /\ target[w] = Request(w).id /\ Untouched(w)
    <2>1. KindOf(w) \in Kinds
        BY <1>1, KindIsKind DEF Inv
    <2> QED
        BY <1>1, <2>1 DEF Local, CreateLocal, UpdateLocal, DeleteLocal, CloseLocal,
                          ListLocal, Kinds
<1>3. target[w] \in Ids
    BY <1>1, <1>2, TargetIsId DEF Inv
<1>4. CASE rows[target[w]] # NoRow /\ rows[target[w]].owner = user
    <2>1. /\ pc' = [pc EXCEPT ![w] = IF KindOf(w) = "update" THEN "update" ELSE "look"]
          /\ UNCHANGED <<Lasting, req, tx, listing>>
        BY <1>4 DEF Check, Goto
    <2>2. pc'[w] = IF KindOf(w) = "update" THEN "update" ELSE "look"
        BY <2>1 DEF Inv, TypeOK
    <2>3. TypeOK'
        <3>1. pc' \in [Workers -> PcState]
            BY <2>1 DEF Inv, TypeOK, PcState
        <3> QED
            BY <2>1, <3>1 DEF Inv, TypeOK, Lasting, tables, history, tx
    <2>4. Others(w)
        BY <2>1 DEF Inv, TypeOK, Others, Still, tx
    <2>5. Quiet(w)
        <3>1. \A v \in Workers \ {w} : holds'[w] \cap holds[v] = {}
            BY <2>1 DEF tx, Inv, Apart
        <3> QED
            BY <1>1, <1>2, <2>1, <2>4, <3>1, MoveQuiet DEF tx
    <2>6. Theirs(target[w], user)'
        <3>1. Theirs(target[w], user)
            BY <1>3, <1>4, RowIsKnown DEF Row_
        <3>2. target' = target /\ user' = user
            BY <2>1 DEF tx, Lasting, Request
        <3> QED
            BY <1>3, <2>5, <3>1, <3>2, QuietKnown
    <2>7. Untouched(w)' /\ target'[w] = Request(w)'.id /\ KindOf(w)' = KindOf(w)
        BY <1>2, <2>1 DEF tx, Untouched, Lasting, Request, KindOf
    <2>8. Local(w)'
        <3>1. KindOf(w) = "update" => UpdateLocal(w)'
            BY <2>2, <2>6, <2>7 DEF UpdateLocal, Untouched
        <3>2. KindOf(w) = "delete" => DeleteLocal(w)'
            BY <2>2, <2>6, <2>7 DEF DeleteLocal, Untouched
        <3>3. req'[w] \in DOMAIN requests'
            BY <1>1, <2>1 DEF Lasting
        <3> QED
            BY <1>2, <2>2, <2>7, <3>1, <3>2, <3>3 DEF Local
    <2> QED
        BY <2>3, <2>5, <2>8, QuietKeeps
<1>5. CASE ~(rows[target[w]] # NoRow /\ rows[target[w]].owner = user)
    <2>1. Rollback(w)
        BY <1>5 DEF Check
    <2> QED
        BY <1>1, <2>1, RollbackKeeps
<1> QED
    BY <1>4, <1>5

LEMMA GivenUpKeeps ==
    ASSUME Inv, NEW w \in Workers,
           Refuse(w) \/ StatementFails(w) \/ CancelDeadlocked(w) \/ AnswerListing(w)
    PROVE  Inv'
<1>1. pc[w] # "idle" /\ Rollback(w)
    <2>1. CASE CancelDeadlocked(w)
        BY <2>1 DEF CancelDeadlocked, WaitsInCycle, Waits
    <2>2. CASE Refuse(w) \/ StatementFails(w) \/ AnswerListing(w)
        BY <2>2 DEF Refuse, StatementFails, AnswerListing
    <2> QED
        BY <2>1, <2>2
<1> QED
    BY <1>1, RollbackKeeps

\* What a step of a transaction leaves of its own request and of the tables.
LEMMA MoveFacts ==
    ASSUME Inv, NEW w \in Workers, pc[w] # "idle", UNCHANGED <<Lasting, req, target>>
    PROVE  /\ req'[w] \in DOMAIN requests'
           /\ Request(w)' = Request(w) /\ KindOf(w)' = KindOf(w) /\ KindOf(w) \in Kinds
           /\ target' = target
           /\ \A id \in Ids : (Row_(id)' <=> Row_(id)) /\ Of(id)' = Of(id)
           /\ Existing(target[w])' = Existing(target[w])
           /\ OwnedBy(Request(w).user)' = OwnedBy(Request(w).user)
<1>1. req[w] \in DOMAIN requests
    BY DEF Inv, Local
<1>2. Request(w)' = Request(w) /\ KindOf(w)' = KindOf(w) /\ target' = target /\ rows' = rows
    BY DEF Lasting, tables, Request, KindOf
<1>3. OwnedBy(Request(w).user)' = OwnedBy(Request(w).user)
    BY <1>2 DEF OwnedBy, Row_
<1>4. Existing(target[w])' = Existing(target[w])
    BY <1>2 DEF Existing, Row_
<1>5. \A id \in Ids : (Row_(id)' <=> Row_(id)) /\ Of(id)' = Of(id)
    BY DEF Lasting, tables, Row_, Of
<1>6. KindOf(w) \in Kinds
    BY <1>1, KindIsKind DEF Inv
<1> QED
    BY <1>1, <1>2, <1>3, <1>4, <1>5, <1>6 DEF Lasting

LEMMA UpdateConfigurationKeeps ==
    ASSUME Inv, NEW w \in Workers, UpdateConfiguration(w)
    PROVE  Inv'
<1> USE DEF UpdateConfiguration, Goto
<1>1. KindOf(w) = "update" /\ UpdateLocal(w) /\ pc[w] = "update"
    BY MoveFacts DEF Inv, Local, CreateLocal, UpdateLocal, DeleteLocal, CloseLocal,
                     ListLocal, Kinds
<1>2. pc'[w] = "look" /\ holds'[w] = {id \in {target[w]} : rows[id] # NoRow}
    BY DEF Inv, TypeOK
<1>3. target[w] \in Ids
    BY <1>1, TargetIsId DEF Inv, UpdateLocal, Local
<1>4. TypeOK'
    <2>1. pc' \in [Workers -> PcState]
        BY DEF Inv, TypeOK, PcState
    <2>2. holds' \in [Workers -> SUBSET Ids]
        BY <1>3 DEF Inv, TypeOK
    <2> QED
        BY <2>1, <2>2 DEF Inv, TypeOK, Lasting, tables, history
<1>5. Others(w)
    BY DEF Inv, TypeOK, Others, Still
<1>6. \A v \in Workers \ {w} : holds'[w] \cap holds[v] = {}
    BY <1>1, <1>2 DEF Waits
<1>7. Quiet(w)
    BY <1>1, <1>5, <1>6, MoveQuiet
<1>8. Theirs(target[w], Request(w).user)'
    <2>1. (Request(w).user)' = Request(w).user /\ target' = target
        BY DEF Lasting, Request
    <2> QED
        BY <1>1, <1>3, <1>7, <2>1, QuietKnown DEF UpdateLocal
<1>9. UpdateLocal(w)'
    <2>1. holds'[w] = Existing(target[w])'
        BY <1>1, <1>2, MoveFacts DEF Existing, Row_
    <2>2. wiped'[w] = {} /\ target'[w] = Request(w)'.id
        BY <1>1, MoveFacts DEF UpdateLocal, Untouched
    <2> QED
        BY <1>2, <1>8, <2>1, <2>2 DEF UpdateLocal
<1>10. Local(w)'
    BY <1>1, <1>2, <1>9, MoveFacts DEF Local
<1> QED
    BY <1>4, <1>7, <1>10, QuietKeeps

\* A statement that only goes on to the next one.
LEMMA GoOnKeeps ==
    ASSUME Inv, NEW w \in Workers, pc[w] # "idle", NEW label \in PcState \ {"idle"}, Goto(w, label),
           UNCHANGED <<Lasting, req, tx, listing>>,
           KindOf(w) = "create" => pc[w] = "insertParts" /\ label = "commit",
           KindOf(w) = "update" => pc[w] \in {"insertParts", "recheck"}
                                /\ label \in {"recheck", "commit"}
                                /\ (label = "commit" => Row_(target[w])),
           KindOf(w) \in {"create", "update"}
    PROVE  Inv'
<1>1. pc'[w] = label /\ Others(w) /\ TypeOK'
    <2>1. pc' \in [Workers -> PcState] /\ pc'[w] = label
        BY DEF Inv, TypeOK, Goto
    <2>2. Others(w)
        BY DEF Inv, TypeOK, Goto, Others, Still, tx
    <2> QED
        BY <2>1, <2>2 DEF Inv, TypeOK, Lasting, tables, history, tx
<1>2. Quiet(w)
    <2>1. \A v \in Workers \ {w} : holds'[w] \cap holds[v] = {}
        BY DEF tx, Inv, Apart
    <2> QED
        BY <1>1, <2>1, MoveQuiet DEF tx
<1>3. UNCHANGED <<Lasting, req, target>>
    BY DEF tx
<1>4. KindOf(w) = "create" => CreateLocal(w)'
    <2> SUFFICES ASSUME KindOf(w) = "create" PROVE CreateLocal(w)'
        OBVIOUS
    <2>1. CreateLocal(w)
        BY DEF Inv, Local
    <2>2. ~Row_(target[w])' /\ (Request(w).user)' \in accounts' /\ serial' = serial
        BY <2>1, <1>3 DEF CreateLocal, Lasting, tables, Row_, Request
    <2> QED
        BY <1>1, <2>1, <2>2 DEF CreateLocal, tx
<1>5. KindOf(w) = "update" => UpdateLocal(w)'
    <2> SUFFICES ASSUME KindOf(w) = "update" PROVE UpdateLocal(w)'
        OBVIOUS
    <2>1. UpdateLocal(w) /\ pc[w] \in {"insertParts", "recheck"} /\ target[w] \in Ids
        BY TargetIsId DEF Inv, Local, UpdateLocal
    <2>2. Theirs(target[w], Request(w).user)'
        <3>1. (Request(w).user)' = Request(w).user /\ target' = target
            BY <1>3 DEF Lasting, Request
        <3> QED
            BY <1>2, <2>1, <3>1, QuietKnown DEF UpdateLocal
    <2>3. holds'[w] = Existing(target[w])' /\ target'[w] = Request(w)'.id
        BY <1>3, <2>1, MoveFacts DEF UpdateLocal, tx
    <2>4. \A id \in holds'[w] : Of(id)' \subseteq wiped'[w]
        BY <2>1 DEF UpdateLocal, tx, Lasting, tables, Of
    <2>5. wiped'[w] \subseteq {target'[w]} \X RequestIds
        BY <2>1 DEF UpdateLocal, tx
    <2>6. pc'[w] = "commit" => Row_(target[w])'
        BY <1>1, <1>3 DEF Lasting, tables, Row_
    <2> QED
        BY <1>1, <2>2, <2>3, <2>4, <2>5, <2>6 DEF UpdateLocal
<1>6. Local(w)'
    BY <1>1, <1>3, <1>4, <1>5, MoveFacts DEF Local
<1> QED
    BY <1>1, <1>2, <1>6, QuietKeeps

LEMMA InsertPartsKeeps ==
    ASSUME Inv, NEW w \in Workers, InsertParts(w)
    PROVE  Inv'
<1>1. pc[w] = "insertParts" /\ Local(w) /\ req[w] \in DOMAIN requests
    BY DEF InsertParts, Inv, Local
<1>2. KindOf(w) \in {"create", "update"}
    BY <1>1, KindIsKind DEF Inv, Local, DeleteLocal, CloseLocal, ListLocal, Kinds
<1>3. CASE Rollback(w)
    BY <1>1, <1>3, RollbackKeeps
<1>4. CASE /\ Goto(w, IF KindOf(w) = "create" THEN "commit" ELSE "recheck")
           /\ UNCHANGED <<Lasting, req, tx, listing>>
    <2> DEFINE label == IF KindOf(w) = "create" THEN "commit" ELSE "recheck"
    <2>1. label \in PcState \ {"idle"} /\ Goto(w, label)
        BY <1>4 DEF PcState
    <2> HIDE DEF label
    <2>2. /\ KindOf(w) = "create" => label = "commit"
          /\ KindOf(w) = "update" => label = "recheck"
        BY DEF label
    <2> QED
        BY <1>1, <1>2, <1>4, <2>1, <2>2, GoOnKeeps
<1> QED
    BY <1>3, <1>4 DEF InsertParts

LEMMA RecheckKeeps ==
    ASSUME Inv, NEW w \in Workers, Recheck(w)
    PROVE  Inv'
<1>1. pc[w] = "recheck" /\ Local(w) /\ req[w] \in DOMAIN requests
    BY DEF Recheck, Inv, Local
<1>2. KindOf(w) = "update"
    BY <1>1, KindIsKind DEF Inv, Local, CreateLocal, DeleteLocal, CloseLocal, ListLocal, Kinds
<1>3. CASE Rollback(w)
    BY <1>1, <1>3, RollbackKeeps
<1>4. CASE /\ rows[target[w]] # NoRow
           /\ Goto(w, "commit") /\ UNCHANGED <<Lasting, req, tx, listing>>
    <2>1. "commit" \in PcState \ {"idle"}
        BY DEF PcState
    <2> QED
        BY <1>1, <1>2, <1>4, <2>1, GoOnKeeps DEF Row_
<1> QED
    BY <1>3, <1>4 DEF Recheck

LEMMA LookForPartsKeeps ==
    ASSUME Inv, NEW w \in Workers, LookForParts(w)
    PROVE  Inv'
<1> DEFINE ids == IF pc[w] = "look" THEN {target[w]} ELSE holds[w]
           found == {b \in parts \ wiped[w] : b[1] \in ids}
<1>1. pc[w] \in {"look", "cascade"} /\ Local(w) /\ req[w] \in DOMAIN requests
    BY DEF LookForParts, Inv, Local
<1>2. /\ KindOf(w) \in {"update", "delete", "close"}
      /\ KindOf(w) = "update" => UpdateLocal(w) /\ pc[w] = "look"
      /\ KindOf(w) = "delete" => DeleteLocal(w)
      /\ KindOf(w) = "close" => CloseLocal(w) /\ pc[w] = "cascade"
    <2>1. KindOf(w) \in Kinds
        BY <1>1, KindIsKind DEF Inv
    <2> QED
        BY <1>1, <2>1 DEF Local, CreateLocal, UpdateLocal, CloseLocal, ListLocal, Kinds
<1>3. /\ seen' = [seen EXCEPT ![w] = found]
      /\ pc' = [pc EXCEPT ![w] = IF pc[w] = "look" THEN "wipe" ELSE "cascadeWipe"]
      /\ UNCHANGED <<Lasting, req, target, todo, holds, wiped, listing>>
    BY DEF LookForParts, Goto
<1>4. seen'[w] = found /\ pc'[w] = IF pc[w] = "look" THEN "wipe" ELSE "cascadeWipe"
    BY <1>3 DEF Inv, TypeOK
<1>5. TypeOK'
    <2>1. pc' \in [Workers -> PcState]
        BY <1>3 DEF Inv, TypeOK, PcState
    <2>2. seen' \in [Workers -> SUBSET Batches]
        BY <1>3 DEF Inv, TypeOK
    <2> QED
        BY <1>3, <2>1, <2>2 DEF Inv, TypeOK, Lasting, tables, history
<1>6. Others(w)
    BY <1>3 DEF Inv, TypeOK, Others, Still
<1>7. Quiet(w)
    <2>1. \A v \in Workers \ {w} : holds'[w] \cap holds[v] = {}
        BY <1>3 DEF Inv, Apart
    <2> QED
        BY <1>1, <1>2, <1>3, <1>6, <2>1, MoveQuiet
<1>8. found \subseteq ids \X RequestIds /\ \A id \in ids : Of(id) \subseteq found \cup wiped[w]
    <2>1. found \subseteq ids \X RequestIds
        BY DEF Inv, TypeOK, Batches
    <2> QED
        BY <2>1 DEF Of
<1>9. \A id \in Ids : Of(id)' = Of(id)
    BY <1>3, <1>1, MoveFacts
<1>10. KindOf(w) \in {"update", "delete"} => target[w] \in Ids /\ Theirs(target[w], Request(w).user)'
    <2> SUFFICES ASSUME KindOf(w) \in {"update", "delete"}
                 PROVE  target[w] \in Ids /\ Theirs(target[w], Request(w).user)'
        OBVIOUS
    <2>1. target[w] \in Ids /\ Theirs(target[w], Request(w).user)
        BY <1>1, <1>2, TargetIsId DEF UpdateLocal, DeleteLocal, Inv
    <2>2. (Request(w).user)' = Request(w).user /\ target' = target
        BY <1>3 DEF Lasting, Request
    <2> QED
        BY <1>7, <2>1, <2>2, QuietKnown
<1>11. KindOf(w) = "update" => UpdateLocal(w)'
    <2> SUFFICES ASSUME KindOf(w) = "update" PROVE UpdateLocal(w)'
        OBVIOUS
    <2>1. pc'[w] = "wipe" /\ ids = {target[w]} /\ wiped'[w] = {} /\ wiped[w] = {} /\ holds' = holds
        BY <1>2, <1>3, <1>4 DEF UpdateLocal
    <2>2. holds'[w] = Existing(target[w])' /\ target'[w] = Request(w)'.id
        BY <1>1, <1>2, <1>3, MoveFacts DEF UpdateLocal
    <2>3. \A id \in holds'[w] : Of(id)' \subseteq seen'[w]
        BY <1>2, <1>4, <1>8, <1>9, <1>10, <2>1 DEF UpdateLocal, Existing
    <2>4. seen'[w] \subseteq {target'[w]} \X RequestIds
        BY <1>3, <1>4, <1>8, <2>1
    <2> QED
        BY <1>10, <2>1, <2>2, <2>3, <2>4 DEF UpdateLocal
<1>12. KindOf(w) = "delete" => DeleteLocal(w)'
    <2> SUFFICES ASSUME KindOf(w) = "delete" PROVE DeleteLocal(w)'
        OBVIOUS
    <2>1. target'[w] = Request(w)'.id /\ wiped' = wiped /\ holds' = holds /\ target' = target
        BY <1>1, <1>2, <1>3, MoveFacts DEF DeleteLocal
    <2>2. pc[w] = "cascade" => holds'[w] = Existing(target[w])'
        BY <1>1, <1>2, <1>3, MoveFacts DEF DeleteLocal
    <2>3. ids \subseteq {target[w]}
        BY <1>1, <1>2 DEF DeleteLocal, Existing
    <2>4. seen'[w] \subseteq {target'[w]} \X RequestIds
        BY <1>4, <1>8, <2>1, <2>3
    <2>5. pc[w] = "cascade" => \A id \in holds'[w] : Of(id)' \subseteq seen'[w] \cup wiped'[w]
        <3>1. pc[w] = "cascade" => \A id \in holds[w] : Of(id) \subseteq seen'[w] \cup wiped[w]
            BY <1>4, <1>8
        <3>2. \A id \in holds[w] : Of(id)' = Of(id)
            BY <1>9 DEF Inv, TypeOK
        <3> QED
            BY <2>1, <3>1, <3>2
    <2>6. pc[w] = "look" => holds'[w] = {} /\ wiped'[w] = {}
        BY <1>2, <2>1 DEF DeleteLocal, Untouched
    <2>7. wiped'[w] \subseteq {target'[w]} \X RequestIds
        BY <1>2, <2>1 DEF DeleteLocal
    <2> QED
        BY <1>1, <1>4, <1>10, <2>1, <2>2, <2>4, <2>5, <2>6, <2>7 DEF DeleteLocal
<1>13. KindOf(w) = "close" => CloseLocal(w)'
    <2> SUFFICES ASSUME KindOf(w) = "close" PROVE CloseLocal(w)'
        OBVIOUS
    <2>1. pc'[w] = "cascadeWipe" /\ ids = holds[w] /\ holds' = holds /\ wiped' = wiped
        BY <1>2, <1>3, <1>4
    <2>2. OwnedBy(Request(w).user)' = OwnedBy(Request(w).user)
        BY <1>1, <1>3, MoveFacts
    <2>3. seen'[w] \subseteq holds'[w] \X RequestIds
        BY <1>4, <1>8, <2>1
    <2>4. \A id \in holds'[w] : Of(id)' \subseteq seen'[w] \cup wiped'[w]
        <3>1. \A id \in holds[w] : Of(id) \subseteq seen'[w] \cup wiped[w]
            BY <1>4, <1>8, <2>1
        <3>2. \A id \in holds[w] : Of(id)' = Of(id)
            BY <1>9 DEF Inv, TypeOK
        <3> QED
            BY <2>1, <3>1, <3>2
    <2> QED
        BY <1>2, <2>1, <2>2, <2>3, <2>4 DEF CloseLocal
<1>14. Local(w)'
    BY <1>1, <1>2, <1>3, <1>4, <1>11, <1>12, <1>13, MoveFacts DEF Local
<1> QED
    BY <1>5, <1>7, <1>14, QuietKeeps

LEMMA DeletePartsKeeps ==
    ASSUME Inv, NEW w \in Workers, DeleteParts(w)
    PROVE  Inv'
<1> DEFINE gone == wiped[w] \cup (seen[w] \cap parts)
           label == CASE pc[w] = "cascadeWipe"   -> "commit"
                      [] KindOf(w) = "update"    -> "insertParts"
                      [] OTHER                   -> "remove"
           left == IF pc[w] = "wipe" /\ KindOf(w) = "delete" THEN {target[w]} ELSE {}
<1>1. pc[w] \in {"wipe", "cascadeWipe"} /\ Local(w) /\ req[w] \in DOMAIN requests
    BY DEF DeleteParts, Inv, Local
<1>2. /\ KindOf(w) \in {"update", "delete", "close"}
      /\ KindOf(w) = "update" => UpdateLocal(w) /\ pc[w] = "wipe"
      /\ KindOf(w) = "delete" => DeleteLocal(w)
      /\ KindOf(w) = "close" => CloseLocal(w) /\ pc[w] = "cascadeWipe"
    <2>1. KindOf(w) \in Kinds
        BY <1>1, KindIsKind DEF Inv
    <2> QED
        BY <1>1, <2>1 DEF Local, CreateLocal, UpdateLocal, CloseLocal, ListLocal, Kinds
<1>3. /\ wiped' = [wiped EXCEPT ![w] = gone]
      /\ pc' = [pc EXCEPT ![w] = label]
      /\ todo' = [todo EXCEPT ![w] = left]
      /\ UNCHANGED <<Lasting, req, target, seen, holds, listing>>
    BY DEF DeleteParts, Goto
<1>4. wiped'[w] = gone /\ pc'[w] = label /\ todo'[w] = left
    BY <1>3 DEF Inv, TypeOK
<1>5. KindOf(w) \in {"update", "delete"} => target[w] \in Ids
    BY <1>1, <1>2, TargetIsId DEF UpdateLocal, DeleteLocal, Inv
<1>6. TypeOK'
    <2>1. pc' \in [Workers -> PcState]
        BY <1>3 DEF Inv, TypeOK, PcState
    <2>2. wiped' \in [Workers -> SUBSET Batches]
        BY <1>3 DEF Inv, TypeOK
    <2>3. todo' \in [Workers -> SUBSET Ids]
        BY <1>3, <1>5 DEF Inv, TypeOK
    <2> QED
        BY <1>3, <2>1, <2>2, <2>3 DEF Inv, TypeOK, Lasting, tables, history
<1>7. Others(w)
    BY <1>3 DEF Inv, TypeOK, Others, Still
<1>8. Quiet(w)
    <2>1. \A v \in Workers \ {w} : holds'[w] \cap holds[v] = {}
        BY <1>3 DEF Inv, Apart
    <2> QED
        BY <1>1, <1>2, <1>3, <1>7, <2>1, MoveQuiet
<1>9. \A id \in Ids : Of(id)' = Of(id) /\ Of(id) \subseteq parts
    BY <1>3, <1>1, MoveFacts DEF Of
<1>10. KindOf(w) \in {"update", "delete"} => Theirs(target[w], Request(w).user)'
    <2> SUFFICES ASSUME KindOf(w) \in {"update", "delete"}
                 PROVE  Theirs(target[w], Request(w).user)'
        OBVIOUS
    <2>1. target[w] \in Ids /\ Theirs(target[w], Request(w).user)
        BY <1>1, <1>2, <1>5 DEF UpdateLocal, DeleteLocal
    <2>2. (Request(w).user)' = Request(w).user /\ target' = target
        BY <1>3 DEF Lasting, Request
    <2> QED
        BY <1>8, <2>1, <2>2, QuietKnown
<1>11. KindOf(w) = "update" => UpdateLocal(w)'
    <2> SUFFICES ASSUME KindOf(w) = "update" PROVE UpdateLocal(w)'
        OBVIOUS
    <2>1. pc'[w] = "insertParts" /\ holds' = holds /\ target' = target
        BY <1>2, <1>3, <1>4
    <2>2. holds'[w] = Existing(target[w])' /\ target'[w] = Request(w)'.id
        BY <1>1, <1>2, <1>3, MoveFacts DEF UpdateLocal
    <2>3. \A id \in holds'[w] : Of(id)' \subseteq wiped'[w]
        <3>1. \A id \in holds[w] : id \in Ids /\ Of(id) \subseteq seen[w]
            BY <1>2 DEF UpdateLocal, Inv, TypeOK
        <3>2. holds'[w] = holds[w] /\ seen[w] \cap parts \subseteq wiped'[w]
            BY <1>3, <1>4
        <3> QED
            BY <1>9, <3>1, <3>2
    <2>4. wiped'[w] \subseteq {target'[w]} \X RequestIds
        BY <1>2, <1>4, <2>1 DEF UpdateLocal
    <2> QED
        BY <1>10, <2>1, <2>2, <2>3, <2>4 DEF UpdateLocal
<1>12. KindOf(w) = "delete" => DeleteLocal(w)'
    <2> SUFFICES ASSUME KindOf(w) = "delete" PROVE DeleteLocal(w)'
        OBVIOUS
    <2>1. target'[w] = Request(w)'.id /\ holds' = holds /\ target' = target /\ seen' = seen
        BY <1>1, <1>2, <1>3, MoveFacts DEF DeleteLocal
    <2>2. pc'[w] \in {"remove", "commit"} /\ (pc'[w] = "remove" <=> pc[w] = "wipe")
        BY <1>1, <1>4
    <2>3. pc'[w] = "commit" => holds'[w] = Existing(target[w])'
        BY <1>1, <1>2, <1>3, <2>2, MoveFacts DEF DeleteLocal
    <2>4. pc'[w] = "commit" => \A id \in holds'[w] : Of(id)' \subseteq wiped'[w]
        <3>1. pc[w] = "cascadeWipe" =>
                \A id \in holds[w] : id \in Ids /\ Of(id) \subseteq seen[w] \cup wiped[w]
            BY <1>2 DEF DeleteLocal, Inv, TypeOK
        <3>2. /\ holds'[w] = holds[w]
              /\ seen[w] \cap parts \subseteq wiped'[w] /\ wiped[w] \subseteq wiped'[w]
            BY <1>3, <1>4
        <3>3. pc'[w] = "commit" => pc[w] = "cascadeWipe"
            BY <1>1, <2>2
        <3> QED
            BY <1>9, <3>1, <3>2, <3>3
    <2>5. wiped'[w] \subseteq {target'[w]} \X RequestIds
        BY <1>1, <1>2, <1>4, <2>1 DEF DeleteLocal
    <2>6. pc'[w] = "remove" => holds'[w] = {} /\ todo'[w] = {target'[w]}
        BY <1>2, <1>4, <2>1, <2>2 DEF DeleteLocal
    <2> QED
        BY <1>10, <2>1, <2>2, <2>3, <2>4, <2>5, <2>6 DEF DeleteLocal
<1>13. KindOf(w) = "close" => CloseLocal(w)'
    <2> SUFFICES ASSUME KindOf(w) = "close" PROVE CloseLocal(w)'
        OBVIOUS
    <2>1. pc'[w] = "commit" /\ holds' = holds
        BY <1>2, <1>3, <1>4
    <2>2. OwnedBy(Request(w).user)' = OwnedBy(Request(w).user)
        BY <1>1, <1>3, MoveFacts
    <2>3. \A id \in holds'[w] : Of(id)' \subseteq wiped'[w]
        <3>1. \A id \in holds[w] : id \in Ids /\ Of(id) \subseteq seen[w] \cup wiped[w]
            BY <1>2 DEF CloseLocal, Inv, TypeOK
        <3> QED
            BY <1>4, <1>9, <2>1, <3>1
    <2>4. wiped'[w] \subseteq holds'[w] \X RequestIds
        BY <1>2, <1>4, <2>1 DEF CloseLocal
    <2> QED
        BY <1>2, <2>1, <2>2, <2>3, <2>4 DEF CloseLocal
<1>14. Local(w)'
    <2>1. pc'[w] # "idle"
        BY <1>1, <1>4
    <2> QED
        BY <1>1, <1>2, <1>3, <2>1, <1>11, <1>12, <1>13, MoveFacts DEF Local
<1> QED
    BY <1>6, <1>8, <1>14, QuietKeeps

LEMMA LockUserKeeps ==
    ASSUME Inv, NEW w \in Workers, LockUser(w)
    PROVE  Inv'
<1> DEFINE user == Request(w).user
<1>1. pc[w] = "lockUser" /\ Waits(w) = {} /\ Local(w) /\ req[w] \in DOMAIN requests
    BY DEF LockUser, Inv, Local
<1>2. KindOf(w) = "close" /\ CloseLocal(w) /\ Untouched(w)
    <2>1. KindOf(w) \in Kinds
        BY <1>1, KindIsKind DEF Inv
    <2> QED
        BY <1>1, <2>1 DEF Local, CreateLocal, UpdateLocal, DeleteLocal, CloseLocal, ListLocal, Kinds
<1>3. OwnedBy(user) = {id \in Ids : rows[id] # NoRow /\ rows[id].owner = user}
    BY DEF OwnedBy, Row_
<1>4. /\ todo' = [todo EXCEPT ![w] = OwnedBy(user)]
      /\ UNCHANGED <<Lasting, req, target, seen, holds, wiped, listing>>
    BY <1>3 DEF LockUser
<1>5. todo'[w] = OwnedBy(user)
    BY <1>4 DEF Inv, TypeOK
<1>6. /\ pc' = [pc EXCEPT ![w] = IF todo'[w] = {} THEN "commit" ELSE "remove"]
      /\ pc'[w] = IF OwnedBy(user) = {} THEN "commit" ELSE "remove"
    BY <1>5 DEF LockUser, Goto, Inv, TypeOK
<1>7. TypeOK'
    <2>1. pc' \in [Workers -> PcState]
        BY <1>6 DEF Inv, TypeOK, PcState
    <2>2. todo' \in [Workers -> SUBSET Ids]
        BY <1>4 DEF Inv, TypeOK, OwnedBy
    <2> QED
        BY <1>4, <2>1, <2>2 DEF Inv, TypeOK, Lasting, tables, history
<1>8. Others(w)
    BY <1>4, <1>6 DEF Inv, TypeOK, Others, Still
<1>9. Quiet(w)
    <2>1. \A v \in Workers \ {w} : holds'[w] \cap holds[v] = {}
        BY <1>4 DEF Inv, Apart
    <2>2. KindOf(w)' = "close"
        BY <1>2, <1>4 DEF Lasting, KindOf, Request
    <2>3. ~Creating(w)'
        BY <2>2 DEF Creating
    <2>4. \A v \in Workers \ {w} : Creating(v) => Request(v).user # user
        BY <1>1 DEF Waits, UsesAccount, Creating
    <2> QED
        BY <1>1, <1>4, <1>8, <2>1, <2>3, <2>4 DEF Quiet, Lasting, history
<1>10. \A id \in OwnedBy(user) : Theirs(id, user)'
    <2> SUFFICES ASSUME NEW id \in OwnedBy(user) PROVE Theirs(id, user)'
        OBVIOUS
    <2>1. id \in Ids /\ Theirs(id, user)
        BY RowIsKnown DEF OwnedBy
    <2>2. user' = user
        BY <1>4 DEF Lasting, Request
    <2> QED
        BY <1>9, <2>1, <2>2, QuietKnown
<1>11. CloseLocal(w)'
    <2>1. OwnedBy(user)' = OwnedBy(user)
        BY <1>1, <1>4, MoveFacts
    <2>2. holds'[w] = {} /\ wiped'[w] = {}
        BY <1>2, <1>4 DEF Untouched
    <2>3. pc'[w] \in {"remove", "commit"} /\ (pc'[w] = "commit" => OwnedBy(user)' = {})
        BY <1>6, <2>1
    <2>4. pc'[w] = "remove" => \A id \in todo'[w] : Theirs(id, user)'
        BY <1>5, <1>10
    <2> QED
        BY <1>5, <2>1, <2>2, <2>3, <2>4 DEF CloseLocal
<1>12. Local(w)'
    BY <1>1, <1>2, <1>4, <1>6, <1>11, MoveFacts DEF Local
<1> QED
    BY <1>7, <1>9, <1>12, QuietKeeps

LEMMA RemoveRowKeeps ==
    ASSUME Inv, NEW w \in Workers, RemoveRow(w)
    PROVE  Inv'
<1> DEFINE user == Request(w).user
<1>1. pc[w] = "remove" /\ Local(w) /\ req[w] \in DOMAIN requests
    BY DEF RemoveRow, Inv, Local
<1>2. /\ KindOf(w) \in {"delete", "close"}
      /\ KindOf(w) = "delete" => DeleteLocal(w)
      /\ KindOf(w) = "close" => CloseLocal(w)
    <2>1. KindOf(w) \in Kinds
        BY <1>1, KindIsKind DEF Inv
    <2> QED
        BY <1>1, <2>1 DEF Local, CreateLocal, UpdateLocal, ListLocal, Kinds
<1>3. PICK id \in todo[w] :
         /\ \A v \in Workers \ {w} : id \notin holds[v]
         /\ todo' = [todo EXCEPT ![w] = @ \ {id}]
         /\ holds' = [holds EXCEPT ![w] = IF rows[id] # NoRow THEN @ \cup {id} ELSE @]
         /\ pc' = [pc EXCEPT ![w] = IF todo[w] = {id} THEN "cascade" ELSE "remove"]
    BY DEF RemoveRow, Goto
<1>4. UNCHANGED <<Lasting, req, target, seen, wiped, listing>>
    BY DEF RemoveRow
<1>5. id \in Ids
    BY DEF Inv, TypeOK
<1>6. /\ todo'[w] = todo[w] \ {id}
      /\ holds'[w] = IF Row_(id) THEN holds[w] \cup {id} ELSE holds[w]
      /\ pc'[w] = IF todo[w] = {id} THEN "cascade" ELSE "remove"
    BY <1>3 DEF Inv, TypeOK, Row_
<1>7. TypeOK'
    <2>1. pc' \in [Workers -> PcState]
        BY <1>3 DEF Inv, TypeOK, PcState
    <2>2. todo' \in [Workers -> SUBSET Ids]
        BY <1>3 DEF Inv, TypeOK
    <2>3. holds' \in [Workers -> SUBSET Ids]
        BY <1>3, <1>5 DEF Inv, TypeOK
    <2> QED
        BY <1>4, <2>1, <2>2, <2>3 DEF Inv, TypeOK, Lasting, tables, history
<1>8. Others(w)
    BY <1>3, <1>4 DEF Inv, TypeOK, Others, Still
<1>9. Quiet(w)
    <2>1. \A v \in Workers \ {w} : holds'[w] \cap holds[v] = {}
        <3>1. \A v \in Workers \ {w} : holds[w] \cap holds[v] = {}
            BY DEF Inv, Apart
        <3> QED
            BY <1>3, <1>6, <3>1
    <2> QED
        BY <1>1, <1>2, <1>4, <1>8, <2>1, MoveQuiet
<1>10. KindOf(w) = "delete" => DeleteLocal(w)'
    <2> SUFFICES ASSUME KindOf(w) = "delete" PROVE DeleteLocal(w)'
        OBVIOUS
    <2>1. todo[w] = {target[w]} /\ holds[w] = {} /\ id = target[w]
        BY <1>1, <1>2, <1>3 DEF DeleteLocal
    <2>2. pc'[w] = "cascade" /\ holds'[w] = Existing(target[w])
        BY <1>6, <2>1 DEF Existing
    <2>3. holds'[w] = Existing(target[w])' /\ target'[w] = Request(w)'.id
        BY <1>1, <1>2, <1>4, <2>2, MoveFacts DEF DeleteLocal
    <2>4. Theirs(target[w], user)'
        <3>1. target[w] \in Ids /\ Theirs(target[w], user)
            BY <1>1, <1>2, <1>5, <2>1 DEF DeleteLocal
        <3>2. user' = user /\ target' = target
            BY <1>4 DEF Lasting, Request
        <3> QED
            BY <1>9, <3>1, <3>2, QuietKnown
    <2>5. wiped'[w] \subseteq {target'[w]} \X RequestIds
        BY <1>2, <1>4 DEF DeleteLocal
    <2> QED
        BY <2>2, <2>3, <2>4, <2>5 DEF DeleteLocal
<1>11. KindOf(w) = "close" => CloseLocal(w)'
    <2> SUFFICES ASSUME KindOf(w) = "close" PROVE CloseLocal(w)'
        OBVIOUS
    <2>1. user' = user /\ OwnedBy(user)' = OwnedBy(user)
        <3>1. user' = user
            BY <1>4 DEF Lasting, Request
        <3> QED
            BY <1>1, <1>4, <3>1, MoveFacts
    <2>2. \A x \in todo'[w] : Theirs(x, user)'
        <3> SUFFICES ASSUME NEW x \in todo'[w] PROVE Theirs(x, user)'
            OBVIOUS
        <3>1. x \in todo[w] /\ x \in Ids
            BY <1>6 DEF Inv, TypeOK
        <3>2. Theirs(x, user)
            BY <1>1, <1>2, <3>1 DEF CloseLocal
        <3> QED
            BY <1>9, <2>1, <3>1, <3>2, QuietKnown
    <2>3. holds'[w] \subseteq OwnedBy(user)
        <3>1. Row_(id) => id \in OwnedBy(user)
            BY <1>1, <1>2, <1>5 DEF CloseLocal, Theirs, OwnedBy
        <3> QED
            BY <1>2, <1>6, <3>1 DEF CloseLocal
    <2>4. OwnedBy(user) \subseteq todo'[w] \cup holds'[w]
        <3>1. OwnedBy(user) \subseteq todo[w] \cup holds[w]
            BY <1>1, <1>2 DEF CloseLocal
        <3>2. id \in OwnedBy(user) => Row_(id)
            BY DEF OwnedBy
        <3> QED
            BY <1>6, <3>1, <3>2
    <2>5. pc'[w] = "cascade" => OwnedBy(user) \subseteq holds'[w]
        BY <1>6, <2>4
    <2>6. wiped'[w] = {} /\ pc'[w] \in {"remove", "cascade"}
        BY <1>1, <1>2, <1>4, <1>6 DEF CloseLocal
    <2> QED
        BY <2>1, <2>2, <2>3, <2>4, <2>5, <2>6 DEF CloseLocal
<1>12. Local(w)'
    <2>1. pc'[w] # "idle"
        BY <1>6
    <2> QED
        BY <1>1, <1>2, <1>4, <1>10, <1>11, <2>1, MoveFacts DEF Local
<1> QED
    BY <1>7, <1>9, <1>12, QuietKeeps

\* The statements of a reader.
LEMMA ReadingKeeps ==
    ASSUME Inv, NEW w \in Workers, pc[w] # "idle", KindOf(w) = "list",
           Others(w), UNCHANGED <<Lasting, req, target, seen, holds, wiped>>,
           pc' \in [Workers -> PcState], pc'[w] \in {"listParts", "listed"},
           todo' \in [Workers -> SUBSET Ids],
           listing' \in [Workers -> [Ids -> Entry \cup {NoRow}]],
           \A id \in todo'[w] : listing'[w][id] # NoRow
    PROVE  Inv'
<1>1. TypeOK'
    BY DEF Inv, TypeOK, Lasting, tables, history
<1>2. Quiet(w)
    <2>1. \A v \in Workers \ {w} : holds'[w] \cap holds[v] = {}
        BY DEF Inv, Apart
    <2> QED
        BY <2>1, MoveQuiet
<1>3. ListLocal(w)'
    BY DEF Inv, Local, ListLocal, Untouched
<1>4. Local(w)'
    BY <1>3, MoveFacts DEF Local
<1> QED
    BY <1>1, <1>2, <1>4, QuietKeeps

LEMMA ListRowsKeeps ==
    ASSUME Inv, NEW w \in Workers, ListRows(w)
    PROVE  Inv'
<1> DEFINE mine == {id \in Ids : rows[id] # NoRow /\ rows[id].owner = Request(w).user}
           names == [id \in Ids |-> IF id \in mine
                                    THEN [name |-> rows[id].name, read |-> "no", parts |-> {}]
                                    ELSE NoRow]
<1>1. pc[w] = "listRows" /\ Local(w) /\ req[w] \in DOMAIN requests
    BY DEF ListRows, Inv, Local
<1>2. KindOf(w) = "list"
    BY <1>1, KindIsKind DEF Inv, Local, CreateLocal, UpdateLocal, DeleteLocal, CloseLocal, Kinds
<1>3. /\ listing' = [listing EXCEPT ![w] = names]
      /\ todo' = [todo EXCEPT ![w] = mine]
      /\ pc' = [pc EXCEPT ![w] = IF mine = {} THEN "listed" ELSE "listParts"]
      /\ UNCHANGED <<Lasting, req, target, seen, holds, wiped>>
    BY DEF ListRows, Goto
<1>4. names \in [Ids -> Entry \cup {NoRow}]
    <2>1. \A id \in mine : [name |-> rows[id].name, read |-> "no", parts |-> {}] \in Entry
        BY DEF Inv, TypeOK, Row, Entry
    <2> QED
        BY <2>1
<1>5. \A id \in mine : names[id] # NoRow
    <2>1. \A id \in mine : [name |-> rows[id].name, read |-> "no", parts |-> {}] \in Entry
        BY DEF Inv, TypeOK, Row, Entry
    <2> QED
        BY <2>1, ConfigStoreAssumption
<1> HIDE DEF names, mine
<1>6. mine \subseteq Ids
    BY DEF mine
<1>7. pc' \in [Workers -> PcState] /\ pc'[w] \in {"listParts", "listed"}
    BY <1>3 DEF Inv, TypeOK, PcState
<1>8. todo' \in [Workers -> SUBSET Ids] /\ todo'[w] = mine
    BY <1>3, <1>6 DEF Inv, TypeOK
<1>9. listing' \in [Workers -> [Ids -> Entry \cup {NoRow}]] /\ listing'[w] = names
    BY <1>3, <1>4 DEF Inv, TypeOK
<1>10. Others(w)
    BY <1>3 DEF Inv, TypeOK, Others, Still
<1> QED
    BY <1>1, <1>2, <1>3, <1>5, <1>7, <1>8, <1>9, <1>10, ReadingKeeps

LEMMA ShownIsComponents == \A id \in Ids : Shown(id) \subseteq Components
    BY DEF Shown, PartsOf, Components

LEMMA ReadPartsKeeps ==
    ASSUME Inv, NEW w \in Workers, NEW id \in todo[w], pc[w] = "listParts",
           NEW how \in {"part", "all"}, NEW got \in SUBSET Shown(id),
           ReadParts(w, id, how, got)
    PROVE  Inv'
<1>1. pc[w] = "listParts" /\ Local(w) /\ req[w] \in DOMAIN requests
    BY DEF Inv, Local
<1>2. KindOf(w) = "list" /\ ListLocal(w)
    BY <1>1, KindIsKind DEF Inv, Local, CreateLocal, UpdateLocal, DeleteLocal, CloseLocal, Kinds
<1>3. /\ listing' = [listing EXCEPT ![w][id] =
            [name |-> @.name, read |-> how, parts |-> got]]
      /\ todo' = [todo EXCEPT ![w] = @ \ {id}]
      /\ pc' = [pc EXCEPT ![w] = IF todo[w] = {id} THEN "listed" ELSE "listParts"]
    BY DEF ReadParts, Goto
<1>4. UNCHANGED <<Lasting, req, target, seen, holds, wiped>>
    BY DEF ReadParts
<1> DEFINE read == [name |-> listing[w][id].name, read |-> how, parts |-> got]
           entries == [listing[w] EXCEPT ![id] = read]
<1>5. id \in Ids /\ todo[w] \subseteq Ids
    BY DEF Inv, TypeOK
<1>6. read \in Entry
    <2>1. listing[w] \in [Ids -> Entry \cup {NoRow}]
        BY DEF Inv, TypeOK
    <2>2. listing[w][id] \in Entry
        BY <1>1, <1>2, <1>5, <2>1 DEF ListLocal
    <2>3. got \subseteq Components
        BY <1>5, ShownIsComponents
    <2> QED
        BY <2>2, <2>3 DEF Entry
<1>7. listing' = [listing EXCEPT ![w] = entries]
    BY <1>3
<1> HIDE DEF read
<1>8. entries \in [Ids -> Entry \cup {NoRow}] /\ \A x \in todo[w] : entries[x] # NoRow
    <2>1. listing[w] \in [Ids -> Entry \cup {NoRow}]
        BY DEF Inv, TypeOK
    <2>2. \A x \in todo[w] : listing[w][x] # NoRow
        BY <1>1, <1>2 DEF ListLocal
    <2>3. read # NoRow
        BY <1>6, ConfigStoreAssumption
    <2> QED
        BY <1>5, <1>6, <2>1, <2>2, <2>3
<1> HIDE DEF entries
<1>9. pc' \in [Workers -> PcState] /\ pc'[w] \in {"listParts", "listed"}
    BY <1>3 DEF Inv, TypeOK, PcState
<1>10. todo' \in [Workers -> SUBSET Ids] /\ todo'[w] \subseteq todo[w]
    BY <1>3 DEF Inv, TypeOK
<1>11. listing' \in [Workers -> [Ids -> Entry \cup {NoRow}]] /\ listing'[w] = entries
    BY <1>7, <1>8 DEF Inv, TypeOK
<1>12. Others(w)
    BY <1>3, <1>4, <1>7 DEF Inv, TypeOK, Others, Still
<1>13. \A x \in todo'[w] : listing'[w][x] # NoRow
    BY <1>8, <1>10, <1>11
<1> QED
    BY <1>1, <1>2, <1>4, <1>9, <1>10, <1>11, <1>12, <1>13, ReadingKeeps

LEMMA ListPartsKeeps ==
    ASSUME Inv, NEW w \in Workers, ListParts(w) \/ PartsCutShort(w)
    PROVE  Inv'
    BY ReadPartsKeeps DEF ListParts, PartsCutShort

LEMMA RowsCutShortKeeps ==
    ASSUME Inv, NEW w \in Workers, RowsCutShort(w)
    PROVE  Inv'
<1> DEFINE entries == [id \in Ids |-> IF id \in todo[w] THEN NoRow ELSE listing[w][id]]
<1>1. pc[w] = "listParts" /\ Local(w) /\ req[w] \in DOMAIN requests
    BY DEF RowsCutShort, Inv, Local
<1>2. KindOf(w) = "list"
    BY <1>1, KindIsKind DEF Inv, Local, CreateLocal, UpdateLocal, DeleteLocal, CloseLocal, Kinds
<1>3. /\ listing' = [listing EXCEPT ![w] = entries]
      /\ todo' = [todo EXCEPT ![w] = {}]
      /\ pc' = [pc EXCEPT ![w] = "listed"]
      /\ UNCHANGED <<Lasting, req, target, seen, holds, wiped>>
    BY DEF RowsCutShort, Goto
<1>4. entries \in [Ids -> Entry \cup {NoRow}]
    BY DEF Inv, TypeOK
<1> HIDE DEF entries
<1>5. pc' \in [Workers -> PcState] /\ pc'[w] \in {"listParts", "listed"}
    BY <1>3 DEF Inv, TypeOK, PcState
<1>6. todo' \in [Workers -> SUBSET Ids] /\ todo'[w] = {}
    BY <1>3 DEF Inv, TypeOK
<1>7. listing' \in [Workers -> [Ids -> Entry \cup {NoRow}]]
    BY <1>3, <1>4 DEF Inv, TypeOK
<1>8. Others(w)
    BY <1>3 DEF Inv, TypeOK, Others, Still
<1> QED
    BY <1>1, <1>2, <1>3, <1>5, <1>6, <1>7, <1>8, ReadingKeeps

\* A commit that fails unnoticed.
LEMMA CommitFailsKeeps ==
    ASSUME Inv, NEW w \in Workers, CommitFails(w)
    PROVE  Inv'
<1> USE DEF EndTransaction
<1>1. pc[w] = "commit" /\ req[w] \in RequestIds
    <2>1. req[w] \in DOMAIN requests /\ Len(requests) <= MaxRequests /\ requests \in Seq(Calls)
        BY DEF CommitFails, Inv, Local, TypeOK
    <2> QED
        BY <2>1, ConfigStoreAssumption DEF CommitFails, RequestIds
<1>2. TypeOK'
    <2>1. /\ pc' \in [Workers -> PcState]
          /\ seen' \in [Workers -> SUBSET Batches] /\ todo' \in [Workers -> SUBSET Ids]
          /\ holds' \in [Workers -> SUBSET Ids] /\ wiped' \in [Workers -> SUBSET Batches]
        BY DEF CommitFails, Inv, TypeOK, PcState
    <2>2. req' \in [Workers -> 0..MaxRequests] /\ target' \in [Workers -> 0..MaxIds]
        BY ConfigStoreAssumption DEF CommitFails, Inv, TypeOK
    <2>3. listing' \in [Workers -> [Ids -> Entry \cup {NoRow}]]
        <3>1. NoListing \in [Ids -> Entry \cup {NoRow}]
            BY DEF NoListing
        <3> QED
            BY <3>1 DEF CommitFails, Inv, TypeOK
    <2>4. answered' \subseteq RequestIds /\ lost' \subseteq RequestIds
        BY <1>1 DEF CommitFails, Inv, TypeOK
    <2> QED
        BY <2>1, <2>2, <2>3, <2>4 DEF CommitFails, Inv, TypeOK, tables
<1>3. pc'[w] = "idle" /\ holds'[w] = {} /\ wiped'[w] = {}
    BY DEF CommitFails, Inv, TypeOK
<1>4. Others(w)
    BY DEF CommitFails, Inv, TypeOK, Others, Still
<1>5. Quiet(w)
    <2>1. answered' \subseteq answered \cup {req[w]} /\ lost' = lost \cup {req[w]}
        BY DEF CommitFails
    <2> QED
        BY <1>1, <1>3, <1>4, <2>1 DEF CommitFails, Quiet, Creating, Closing
<1>6. Local(w)'
    BY <1>3 DEF Local, Untouched
<1> QED
    BY <1>2, <1>5, <1>6, QuietKeeps

-----------------------------------------------------------------------------
(* The other steps: a request arrives, takes an id, or is committed.       *)

LEMMA FramesKeep ==
    ASSUME Inv, TypeOK', NEW w \in Workers, \A v \in Workers \ {w} : Frame(v),
           Local(w)', \A v \in Workers \ {w} : Apart(v, w)' /\ Apart(w, v)', Shared'
    PROVE  Inv'
<1>1. \A v \in Workers : Local(v)'
    BY FrameLocal DEF Inv
<1>2. ASSUME NEW v \in Workers \ {w}, NEW x \in Workers \ {w}, v # x
      PROVE  Apart(v, x)'
    <2>1. \A y \in {v, x} : pc[y] # "idle" => KindOf(y)' = KindOf(y) /\ Request(y)' = Request(y)
        BY RequestKept DEF Frame, Inv, Local
    <2>2. \A y \in {v, x} : pc'[y] = pc[y] /\ req'[y] = req[y] /\ holds'[y] = holds[y]
        BY DEF Frame, Still
    <2>3. Apart(v, x)
        BY <1>2 DEF Inv
    <2>4. Creating(v)' /\ Closing(x)' =>
            Creating(v) /\ Closing(x) /\ Request(v)' = Request(v) /\ Request(x)' = Request(x)
        BY <2>1, <2>2 DEF Creating, Closing
    <2> QED
        BY <2>2, <2>3, <2>4 DEF Apart
<1>3. \A v, x \in Workers : v # x => Apart(v, x)'
    BY <1>2
<1> QED
    BY <1>1, <1>3 DEF Inv

LEMMA ReceiveKeeps ==
    ASSUME Inv, NEW w \in Workers, Receive(w)
    PROVE  Inv'
<1> DEFINE n == Len(requests) + 1
<1>1. PICK call \in Calls :
         /\ requests' = Append(requests, call)
         /\ target' = [target EXCEPT ![w] =
              IF call.kind \in {"update", "delete"} THEN call.id ELSE 0]
         /\ pc' = [pc EXCEPT ![w] = CASE call.kind = "create" -> "insert"
                      [] call.kind = "list"   -> "listRows"
                      [] call.kind = "close"  -> "lockUser"
                      [] OTHER                -> "check"]
    BY DEF Receive, Goto
<1>2. /\ pc[w] = "idle" /\ Len(requests) < MaxRequests
      /\ req' = [req EXCEPT ![w] = n]
      /\ UNCHANGED <<tables, serial, seen, todo, holds, wiped, listing, history>>
    BY DEF Receive
<1>3. call.kind \in Kinds /\ call.id \in Ids
    BY <1>1, ConfigStoreAssumption DEF Call
<1>4. requests \in Seq(Calls) /\ n \in 1..MaxRequests
    BY <1>2, ConfigStoreAssumption DEF Inv, TypeOK
<1>5. /\ DOMAIN requests' = DOMAIN requests \cup {n} /\ n \notin DOMAIN requests
      /\ requests'[n] = call /\ RequestsKept /\ Len(requests') = n
    BY <1>1, <1>4 DEF RequestsKept
<1>6. target'[w] = IF call.kind \in {"update", "delete"} THEN call.id ELSE 0
    BY <1>1 DEF Inv, TypeOK
<1>7. req'[w] = n /\ pc'[w] = CASE call.kind = "create" -> "insert"
                      [] call.kind = "list"   -> "listRows"
                      [] call.kind = "close"  -> "lockUser"
                      [] OTHER                -> "check"
    BY <1>1, <1>2 DEF Inv, TypeOK
<1>8. TypeOK'
    <2>1. pc' \in [Workers -> PcState]
        BY <1>1 DEF Inv, TypeOK, PcState
    <2>2. req' \in [Workers -> 0..MaxRequests]
        BY <1>2, <1>4 DEF Inv, TypeOK
    <2>3. target' \in [Workers -> 0..MaxIds]
        BY <1>1, <1>3, ConfigStoreAssumption DEF Inv, TypeOK, Ids
    <2>4. requests' \in Seq(Calls) /\ Len(requests') <= MaxRequests
        BY <1>1, <1>4, <1>5
    <2> QED
        BY <1>2, <2>1, <2>2, <2>3, <2>4 DEF Inv, TypeOK, tables, history
<1>9. Others(w)
    BY <1>1, <1>2 DEF Inv, TypeOK, Others, Still
<1>10. \A v \in Workers \ {w} : pc[v] # "idle" => KindOf(v)' = KindOf(v) /\ Request(v)' = Request(v)
    BY <1>5, <1>9, RequestKept DEF Others, Inv, Local
<1>11. \A v \in Workers : Creating(v)' => v # w /\ Creating(v) /\ target'[v] = target[v]
    BY <1>7, <1>9, <1>10 DEF Creating, Others, Still
<1>12. \A v \in Workers \ {w} : Closing(v)' => Closing(v)
    BY <1>9, <1>10 DEF Closing, Others, Still
<1>13. \A id \in Ids : Known(id) => Known(id)'
    BY <1>2, <1>11 DEF Known
<1>14. \A v \in Workers \ {w} : Frame(v)
    <2> SUFFICES ASSUME NEW v \in Workers \ {w} PROVE Frame(v)
        OBVIOUS
    <2>1. \A id \in Ids : rows'[id] = rows[id] /\ Of(id)' = Of(id)
        BY <1>2 DEF tables, Of
    <2>2. holds[v] \subseteq Ids /\ serial \in Nat /\ serial' = serial
        BY <1>2, ConfigStoreAssumption DEF Inv, TypeOK
    <2>3. Creating(v) => Request(v).user \in accounts'
        BY <1>2 DEF Inv, Local, Creating, CreateLocal, tables
    <2>4. Closing(v) => OwnedBy(Request(v).user)' \subseteq OwnedBy(Request(v).user)
        <3>1. Closing(v) => (Request(v).user)' = Request(v).user
            BY <1>10 DEF Closing
        <3> QED
            BY <1>2, <3>1 DEF OwnedBy, Row_, tables
    <2> QED
        BY <1>5, <1>9, <1>13, <2>1, <2>2, <2>3, <2>4 DEF Frame, Others, Row_
<1>15. Local(w)'
    <2>1. KindOf(w)' = call.kind /\ Request(w)' = call /\ req'[w] \in DOMAIN requests'
        BY <1>5, <1>7 DEF KindOf, Request
    <2>2. holds'[w] = {} /\ wiped'[w] = {}
        BY <1>2 DEF Inv, Local, Untouched
    <2>3. call.kind = "create" => CreateLocal(w)'
        BY <1>7, <2>2 DEF CreateLocal, Untouched
    <2>4. call.kind = "update" => UpdateLocal(w)'
        BY <1>6, <1>7, <2>1, <2>2 DEF UpdateLocal, Untouched
    <2>5. call.kind = "delete" => DeleteLocal(w)'
        BY <1>6, <1>7, <2>1, <2>2 DEF DeleteLocal, Untouched
    <2>6. call.kind = "close" => CloseLocal(w)'
        BY <1>7, <2>2 DEF CloseLocal, Untouched
    <2>7. call.kind = "list" => ListLocal(w)'
        BY <1>7, <2>2 DEF ListLocal, Untouched
    <2> QED
        BY <1>7, <2>1, <2>3, <2>4, <2>5, <2>6, <2>7 DEF Local
<1>16. \A v \in Workers \ {w} : Apart(v, w)' /\ Apart(w, v)'
    <2> SUFFICES ASSUME NEW v \in Workers \ {w} PROVE Apart(v, w)' /\ Apart(w, v)'
        OBVIOUS
    <2>1. holds'[w] = {}
        BY <1>2 DEF Inv, Local, Untouched
    <2>2. pc'[v] # "idle" => req'[v] # n
        BY <1>5, <1>9 DEF Inv, Local, Others, Still
    <2>3. ~Creating(w)' /\ ~Closing(w)'
        BY <1>7, <1>11 DEF Closing
    <2> QED
        BY <1>7, <2>1, <2>2, <2>3 DEF Apart
<1>17. Shared'
    <2>1. RowsKnown'
        BY <1>2, <1>5, <1>13 DEF Inv, Shared, RowsKnown, Row_, tables
    <2>2. SavedTogether'
        <3>1. \A id \in Ids : Row_(id) => requests'[rows[id].name] = requests[rows[id].name]
            BY <1>5 DEF RequestsKept, Inv, Shared, RowsKnown
        <3> QED
            BY <1>2, <3>1 DEF Inv, Shared, SavedTogether, PartsOf, Row_, tables
    <2>3. RequestsOnce'
        <3>1. Done' = Done /\ answered' = answered
            BY <1>2 DEF Done, history
        <3>2. Done \subseteq DOMAIN requests /\ answered \subseteq DOMAIN requests
            BY DEF Inv, Shared, RequestsOnce
        <3>3. \A v \in Workers \ {w} : pc'[v] # "idle" => req'[v] \notin Done \cup answered
            BY <1>9 DEF Others, Still, Inv, Shared, RequestsOnce
        <3>4. req'[w] \notin Done \cup answered
            BY <1>5, <1>7, <3>2
        <3> QED
            BY <1>5, <3>1, <3>2, <3>3, <3>4 DEF RequestsOnce
    <2>4. ASSUME NEW m \in answered \ lost PROVE Kept(m)'
        <3>1. Kept(m) /\ m \in DOMAIN requests
            BY DEF Inv, Shared, RequestsOnce
        <3>2. requests'[m] = requests[m] /\ requests[m].id \in Ids
            <4>1. requests[m] \in Calls
                BY <3>1 DEF Inv, TypeOK
            <4> QED
                BY <1>5, <3>1, <4>1, ConfigStoreAssumption DEF RequestsKept, Call
        <3>3. requests[m].kind = "delete" => Known(requests[m].id)' /\ ~Row_(requests[m].id)'
            BY <1>2, <1>13, <3>1, <3>2 DEF Kept, Row_, tables
        <3>4. (requests[m].kind)' = requests[m].kind /\ (requests[m].user)' = requests[m].user
              /\ (requests[m].id)' = requests[m].id
            BY <3>2
        <3>5. OwnedBy(requests[m].user)' = OwnedBy(requests[m].user)
            BY <1>2, <3>4 DEF OwnedBy, Row_, tables
        <3> QED
            BY <1>2, <3>1, <3>3, <3>4, <3>5 DEF Kept, tables, history, Row_, Known
    <2> QED
        BY <1>2, <2>1, <2>2, <2>3, <2>4 DEF Shared, history
<1> QED
    BY <1>8, <1>14, <1>15, <1>16, <1>17, FramesKeep

\* An id that a worker holds has been given already.
LEMMA HeldWasGiven ==
    ASSUME Inv, NEW v \in Workers
    PROVE  holds[v] \subseteq 1..serial
<1>1. \A id \in Ids : Row_(id) => id \in 1..serial
    BY DEF Inv, Shared, RowsKnown, Known
<1>2. holds[v] \subseteq Ids
    BY DEF Inv, TypeOK
<1>3. CASE pc[v] = "idle"
    BY <1>3 DEF Inv, Local, Untouched
<1>4. CASE pc[v] # "idle"
    <2>1. Local(v) /\ KindOf(v) \in Kinds
        BY <1>4, KindIsKind DEF Inv, Local
    <2>2. CASE KindOf(v) = "create"
        BY <1>4, <2>1, <2>2 DEF Local, CreateLocal, Untouched
    <2>3. CASE KindOf(v) = "update"
        BY <1>1, <1>2, <1>4, <2>1, <2>3 DEF Local, UpdateLocal, Untouched, Existing
    <2>4. CASE KindOf(v) = "delete"
        BY <1>1, <1>2, <1>4, <2>1, <2>4 DEF Local, DeleteLocal, Untouched, Existing
    <2>5. CASE KindOf(v) = "close"
        BY <1>1, <1>4, <2>1, <2>5 DEF Local, CloseLocal, OwnedBy
    <2>6. CASE KindOf(v) = "list"
        BY <1>4, <2>1, <2>6 DEF Local, ListLocal, Untouched
    <2> QED
        BY <2>1, <2>2, <2>3, <2>4, <2>5, <2>6 DEF Kinds
<1> QED
    BY <1>3, <1>4

LEMMA InsertConfigurationKeeps ==
    ASSUME Inv, NEW w \in Workers, InsertConfiguration(w)
    PROVE  Inv'
<1> DEFINE new == serial + 1
           user == Request(w).user
<1>1. pc[w] = "insert" /\ Waits(w) = {} /\ Local(w) /\ req[w] \in DOMAIN requests
    BY DEF InsertConfiguration, Inv, Local
<1>2. KindOf(w) = "create" /\ CreateLocal(w) /\ Untouched(w)
    <2>1. KindOf(w) \in Kinds
        BY <1>1, KindIsKind DEF Inv
    <2> QED
        BY <1>1, <2>1 DEF Local, CreateLocal, UpdateLocal, DeleteLocal, CloseLocal, ListLocal, Kinds
<1>3. CASE Rollback(w)
    BY <1>1, <1>3, RollbackKeeps
<1>4. CASE user \in accounts
    <2>1. /\ serial < MaxIds /\ serial' = new
          /\ target' = [target EXCEPT ![w] = new]
          /\ holds' = [holds EXCEPT ![w] = {new}]
          /\ pc' = [pc EXCEPT ![w] = "insertParts"]
          /\ UNCHANGED <<tables, requests, req, seen, todo, wiped, listing, history>>
        BY <1>4 DEF InsertConfiguration, Goto
    <2>2. serial \in 0..MaxIds /\ new \in Ids /\ new \in 0..MaxIds /\ new \in Nat
          /\ new \in 1..new /\ new \notin 1..serial /\ 1..serial \subseteq 1..new
        BY <2>1, ConfigStoreAssumption DEF Inv, TypeOK, Ids
    <2>3. target'[w] = new /\ holds'[w] = {new} /\ pc'[w] = "insertParts"
        BY <2>1 DEF Inv, TypeOK
    <2>4. TypeOK'
        <3>1. pc' \in [Workers -> PcState]
            BY <2>1 DEF Inv, TypeOK, PcState
        <3>2. target' \in [Workers -> 0..MaxIds]
            BY <2>1, <2>2 DEF Inv, TypeOK
        <3>3. holds' \in [Workers -> SUBSET Ids]
            BY <2>1, <2>2 DEF Inv, TypeOK
        <3> QED
            BY <2>1, <2>2, <3>1, <3>2, <3>3 DEF Inv, TypeOK, tables, history
    <2>5. Others(w)
        BY <2>1 DEF Inv, TypeOK, Others, Still
    <2>6. RequestsKept /\ \A v \in Workers : Request(v)' = Request(v) /\ KindOf(v)' = KindOf(v)
        BY <2>1 DEF RequestsKept, Request, KindOf
    <2>7. \A v \in Workers \ {w} : (Creating(v)' <=> Creating(v)) /\ (Closing(v)' <=> Closing(v))
                                   /\ target'[v] = target[v]
        BY <2>5, <2>6 DEF Creating, Closing, Others, Still
    <2>8. \A id \in Ids : Known(id) => Known(id)'
        <3> SUFFICES ASSUME NEW id \in Ids, Known(id), NEW v \in Workers, Creating(v)'
                     PROVE  id \in 1..serial' /\ target'[v] # id
            BY <2>1, <2>2 DEF Known
        <3>1. id \in 1..serial
            BY DEF Known
        <3>2. target'[v] # id
            BY <2>2, <2>3, <2>7, <3>1 DEF Known
        <3> QED
            BY <2>1, <2>2, <3>1, <3>2
    <2>9. \A v \in Workers \ {w} : Frame(v)
        <3> SUFFICES ASSUME NEW v \in Workers \ {w} PROVE Frame(v)
            OBVIOUS
        <3>1. \A id \in Ids : rows'[id] = rows[id] /\ Of(id)' = Of(id)
            BY <2>1 DEF tables, Of
        <3>2. holds[v] \subseteq Ids /\ serial \in Nat /\ serial' \in Nat /\ serial <= serial'
            BY <2>1, <2>2, ConfigStoreAssumption DEF Inv, TypeOK
        <3>3. Creating(v) => Request(v).user \in accounts'
            BY <2>1 DEF Inv, Local, Creating, CreateLocal, tables
        <3>4. OwnedBy(Request(v).user)' \subseteq OwnedBy(Request(v).user)
            <4>1. (Request(v).user)' = Request(v).user
                BY <2>6
            <4> QED
                BY <2>1, <4>1 DEF OwnedBy, Row_, tables
        <3> QED
            BY <2>5, <2>6, <2>8, <3>1, <3>2, <3>3, <3>4 DEF Frame, Others, Row_
    <2>10. ~Row_(new)
        BY <2>2 DEF Inv, Shared, RowsKnown, Known
    <2>11. Local(w)'
        <3>1. ~Row_(target[w])'
            BY <2>1, <2>3, <2>10 DEF tables, Row_
        <3>2. user' \in accounts'
            BY <1>4, <2>1, <2>6 DEF tables
        <3>3. wiped'[w] = {}
            BY <1>2, <2>1 DEF Untouched
        <3>4. CreateLocal(w)'
            BY <2>1, <2>2, <2>3, <3>1, <3>2, <3>3 DEF CreateLocal
        <3> QED
            BY <1>1, <1>2, <2>1, <2>3, <2>6, <3>4 DEF Local
    <2>12. \A v \in Workers \ {w} : Apart(v, w)' /\ Apart(w, v)'
        <3> SUFFICES ASSUME NEW v \in Workers \ {w} PROVE Apart(v, w)' /\ Apart(w, v)'
            OBVIOUS
        <3>1. Apart(v, w) /\ Apart(w, v)
            BY DEF Inv
        <3>2. holds'[v] \cap holds'[w] = {}
            <4>1. holds[v] \subseteq 1..serial
                BY HeldWasGiven
            <4> QED
                BY <2>2, <2>3, <2>5, <4>1 DEF Others, Still
        <3>3. ~Closing(w)'
            BY <1>2, <2>6 DEF Closing
        <3>4. Closing(v)' => Request(w)'.user # Request(v)'.user
            <4>1. Closing(v) => Request(v).user # user
                BY <1>1 DEF Waits, UsesAccount, Closing
            <4> QED
                BY <2>6, <2>7, <4>1
        <3>5. pc'[v] = pc[v] /\ req' = req
            BY <2>1, <2>5 DEF Others, Still
        <3> QED
            BY <1>1, <3>1, <3>2, <3>3, <3>4, <3>5 DEF Apart
    <2>13. Shared'
        <3>1. RowsKnown'
            BY <2>1, <2>8 DEF Inv, Shared, RowsKnown, Row_, tables
        <3>2. SavedTogether'
            BY <2>1 DEF Inv, Shared, SavedTogether, PartsOf, tables
        <3>3. RequestsOnce'
            <4>1. Done' = Done /\ answered' = answered /\ requests' = requests /\ req' = req
                BY <2>1 DEF Done, history
            <4>2. \A v \in Workers : pc'[v] # "idle" => pc[v] # "idle"
                BY <1>1, <2>5 DEF Others, Still
            <4> QED
                BY <4>1, <4>2 DEF Inv, Shared, RequestsOnce
        <3>4. ASSUME NEW m \in answered \ lost PROVE Kept(m)'
            <4>1. Kept(m) /\ m \in DOMAIN requests
                BY DEF Inv, Shared, RequestsOnce
            <4>2. requests[m].id \in Ids
                <5>1. requests[m] \in Calls
                    BY <4>1 DEF Inv, TypeOK
                <5> QED
                    BY <5>1, ConfigStoreAssumption DEF Call
            <4>3. requests[m].kind = "delete" => Known(requests[m].id)' /\ ~Row_(requests[m].id)'
                BY <2>1, <2>8, <4>1, <4>2 DEF Kept, Row_, tables
            <4>4. OwnedBy(requests[m].user)' = OwnedBy(requests[m].user)
                BY <2>1 DEF OwnedBy, Row_, tables
            <4> QED
                BY <2>1, <4>1, <4>3, <4>4 DEF Kept, tables, history
        <3> QED
            BY <2>1, <3>1, <3>2, <3>3, <3>4 DEF Shared, history
    <2> QED
        BY <2>4, <2>9, <2>11, <2>12, <2>13, FramesKeep
<1> QED
    BY <1>3, <1>4 DEF InsertConfiguration

Saves(w) == KindOf(w) \in {"create", "update"}

\* What a worker at its commit relies on, whatever its request.
LEMMA AtCommit ==
    ASSUME Inv, NEW w \in Workers, pc[w] = "commit"
    PROVE  /\ req[w] \in DOMAIN requests /\ req[w] \in RequestIds
           /\ KindOf(w) \in {"create", "update", "delete", "close"}
           /\ KindOf(w) = "create" => CreateLocal(w)
           /\ KindOf(w) = "update" => UpdateLocal(w) /\ Row_(target[w])
                                      /\ rows[target[w]].owner = Request(w).user
           /\ KindOf(w) = "delete" => DeleteLocal(w)
           /\ KindOf(w) = "close" => CloseLocal(w)
           /\ KindOf(w) # "close" => target[w] \in Ids
           /\ Saves(w) => holds[w] = {target[w]}
           /\ Request(w).user \in Users
<1>1. Local(w) /\ req[w] \in DOMAIN requests
    BY DEF Inv, Local
<1>2. KindOf(w) \in Kinds
    BY <1>1, KindIsKind DEF Inv
<1>3. KindOf(w) \in {"create", "update", "delete", "close"}
    BY <1>1, <1>2 DEF Local, ListLocal, Kinds
<1>4. req[w] \in RequestIds
    <2>1. Len(requests) <= MaxRequests /\ requests \in Seq(Calls)
        BY DEF Inv, TypeOK
    <2> QED
        BY <1>1, <2>1, ConfigStoreAssumption DEF RequestIds
<1>5. KindOf(w) = "create" => target[w] \in Ids /\ holds[w] = {target[w]}
    <2>1. KindOf(w) = "create" => target[w] \in 1..serial
        BY <1>1 DEF Local, CreateLocal
    <2>2. serial \in 0..MaxIds
        BY DEF Inv, TypeOK
    <2>3. 1..serial \subseteq Ids
        BY <2>2, ConfigStoreAssumption DEF Ids
    <2> QED
        BY <1>1, <2>1, <2>3 DEF Local, CreateLocal
<1>6. KindOf(w) \in {"update", "delete"} => target[w] \in Ids
    BY <1>1, TargetIsId DEF Inv, Local, UpdateLocal, DeleteLocal
<1>7. KindOf(w) = "update" => UpdateLocal(w) /\ Row_(target[w]) /\ holds[w] = {target[w]}
                              /\ rows[target[w]].owner = Request(w).user
    <2>1. KindOf(w) = "update" => UpdateLocal(w)
        BY <1>1 DEF Local
    <2>2. KindOf(w) = "update" => Row_(target[w]) /\ Theirs(target[w], Request(w).user)
                                  /\ holds[w] = Existing(target[w])
        BY <2>1 DEF UpdateLocal
    <2> QED
        BY <2>1, <2>2 DEF Theirs, Existing
<1>8. Request(w).user \in Users
    <2>1. requests[req[w]] \in Calls
        BY <1>1 DEF Inv, TypeOK
    <2> QED
        BY <2>1, ConfigStoreAssumption DEF Request, Call
<1> QED
    BY <1>1, <1>3, <1>4, <1>5, <1>6, <1>7, <1>8 DEF Local, Saves

\* What a commit does to the tables.
LEMMA CommitEffect ==
    ASSUME Inv, NEW w \in Workers, Commit(w)
    PROVE  /\ \A id \in Ids \ holds[w] : rows'[id] = rows[id] /\ Of(id)' = Of(id)
           /\ Saves(w) => \A id \in holds[w] :
                /\ rows'[id] = [owner |-> Request(w).user, name |-> req[w]]
                /\ Of(id)' = Stored(w)
           /\ ~Saves(w) => \A id \in holds[w] : rows'[id] = NoRow /\ Of(id)' = {}
<1> DEFINE user == Request(w).user
<1>1. pc[w] = "commit"
    BY DEF Commit
<1>2. /\ rows' = [id \in Ids |-> IF id \in holds[w] THEN RowAfter(w, id) ELSE rows[id]]
      /\ parts' = (parts \ wiped[w]) \cup Stored(w)
      /\ holds[w] \subseteq Ids
    BY DEF Commit, Inv, TypeOK
<1>3. Stored(w) \subseteq {<<target[w], req[w]>>} /\ (~Saves(w) => Stored(w) = {})
    BY DEF Stored, Saves
<1>4. \A id \in Ids : Of(id)' = (Of(id) \ wiped[w]) \cup {b \in Stored(w) : b[1] = id}
    BY <1>2 DEF Of
<1>5. \A id \in Ids \ holds[w] : rows'[id] = rows[id] /\ Of(id)' = Of(id)
    <2> SUFFICES ASSUME NEW id \in Ids \ holds[w] PROVE Of(id)' = Of(id)
        BY <1>2
    <2>1. {b \in Stored(w) : b[1] = id} = {}
        <3>1. Saves(w) => target[w] # id
            BY <1>1, AtCommit
        <3> QED
            BY <1>3, <3>1
    <2>2. Of(id) \cap wiped[w] = {}
        <3>1. CASE KindOf(w) = "create"
            BY <1>1, <3>1, AtCommit DEF CreateLocal
        <3>2. CASE KindOf(w) = "update"
            <4>1. wiped[w] \subseteq {target[w]} \X RequestIds /\ id # target[w]
                BY <1>1, <3>2, AtCommit DEF UpdateLocal, Saves
            <4> QED
                BY <4>1 DEF Of
        <3>3. CASE KindOf(w) = "delete"
            <4>1. /\ wiped[w] \subseteq {target[w]} \X RequestIds
                  /\ holds[w] = Existing(target[w])
                BY <1>1, <3>3, AtCommit DEF DeleteLocal
            <4>2. CASE id = target[w]
                <5>1. rows[id] = NoRow
                    BY <4>1, <4>2 DEF Existing, Row_
                <5>2. PartsOf(id) = {}
                    BY <5>1 DEF Inv, Shared, SavedTogether
                <5>3. Of(id) = {}
                    BY <5>2 DEF PartsOf, Of, Inv, TypeOK, Batches
                <5> QED
                    BY <5>3
            <4>3. CASE id # target[w]
                BY <4>1, <4>3 DEF Of
            <4> QED
                BY <4>2, <4>3
        <3>4. CASE KindOf(w) = "close"
            <4>1. wiped[w] \subseteq holds[w] \X RequestIds
                BY <1>1, <3>4, AtCommit DEF CloseLocal
            <4> QED
                BY <4>1 DEF Of
        <3> QED
            BY <1>1, <3>1, <3>2, <3>3, <3>4, AtCommit
    <2> QED
        BY <1>4, <2>1, <2>2
<1>6. Saves(w) => \A id \in holds[w] :
         /\ rows'[id] = [owner |-> user, name |-> req[w]]
         /\ Of(id)' = Stored(w)
    <2> SUFFICES ASSUME Saves(w)
                 PROVE  \A id \in holds[w] : /\ rows'[id] = [owner |-> user, name |-> req[w]]
                                             /\ Of(id)' = Stored(w)
        OBVIOUS
    <2>1. target[w] \in Ids /\ holds[w] = {target[w]}
        BY <1>1, AtCommit DEF Saves
    <2>2. RowAfter(w, target[w]) = [owner |-> user, name |-> req[w]]
        <3>1. CASE KindOf(w) = "create"
            BY <3>1 DEF RowAfter
        <3>2. CASE KindOf(w) = "update"
            <4>1. rows[target[w]] \in Row /\ rows[target[w]].owner = user
                BY <1>1, <2>1, <3>2, AtCommit DEF Inv, TypeOK, Row_
            <4>2. RowAfter(w, target[w]) = [rows[target[w]] EXCEPT !.name = req[w]]
                BY <3>2 DEF RowAfter
            <4> QED
                BY <4>1, <4>2 DEF Row
        <3> QED
            BY <3>1, <3>2 DEF Saves
    <2>3. Of(target[w]) \ wiped[w] = {}
        <3>1. CASE KindOf(w) = "create"
            <4>1. rows[target[w]] = NoRow
                BY <1>1, <3>1, AtCommit DEF CreateLocal, Row_
            <4>2. PartsOf(target[w]) = {}
                BY <2>1, <4>1 DEF Inv, Shared, SavedTogether
            <4> QED
                BY <4>2 DEF PartsOf, Of, Inv, TypeOK, Batches
        <3>2. CASE KindOf(w) = "update"
            BY <1>1, <2>1, <3>2, AtCommit DEF UpdateLocal
        <3> QED
            BY <3>1, <3>2 DEF Saves
    <2>4. {b \in Stored(w) : b[1] = target[w]} = Stored(w)
        BY <1>3
    <2>5. rows'[target[w]] = [owner |-> user, name |-> req[w]]
        BY <1>2, <2>1, <2>2
    <2>6. \A id \in Ids : id = target[w] => Of(id)' = Stored(w)
        BY <1>4, <2>3, <2>4
    <2> QED
        BY <2>1, <2>5, <2>6
<1>7. ~Saves(w) => \A id \in holds[w] : rows'[id] = NoRow /\ Of(id)' = {}
    <2> SUFFICES ASSUME ~Saves(w), NEW id \in holds[w] PROVE rows'[id] = NoRow /\ Of(id)' = {}
        OBVIOUS
    <2>1. RowAfter(w, id) = NoRow
        BY DEF RowAfter, Saves
    <2>2. Of(id) \subseteq wiped[w]
        BY <1>1, AtCommit DEF DeleteLocal, CloseLocal, Saves
    <2> QED
        BY <1>2, <1>3, <1>4, <2>1, <2>2
<1> QED
    BY <1>5, <1>6, <1>7

\* Where a row of a committed transaction comes from.
LEMMA CommitRows ==
    ASSUME Inv, NEW w \in Workers, Commit(w), NEW id \in Ids, rows'[id] # NoRow
    PROVE  \/ Row_(id) /\ rows'[id].owner = rows[id].owner
           \/ KindOf(w) = "create" /\ id \in holds[w] /\ rows'[id].owner = Request(w).user
<1>1. pc[w] = "commit"
    BY DEF Commit
<1>2. CASE id \notin holds[w]
    BY <1>2, CommitEffect DEF Row_
<1>3. CASE id \in holds[w]
    <2>1. Saves(w) /\ rows'[id].owner = Request(w).user
        <3>1. Saves(w)
            BY <1>3, CommitEffect
        <3>2. rows'[id] = [owner |-> Request(w).user, name |-> req[w]]
            BY <1>3, <3>1, CommitEffect
        <3> QED
            BY <3>1, <3>2
    <2>2. KindOf(w) = "update" => Row_(id) /\ rows[id].owner = Request(w).user
        BY <1>1, <1>3, AtCommit DEF Saves
    <2> QED
        BY <1>3, <2>1, <2>2 DEF Saves
<1> QED
    BY <1>2, <1>3

LEMMA CommitKnown ==
    ASSUME Inv, NEW w \in Workers, Commit(w)
    PROVE  /\ pc'[w] = "idle" /\ Others(w) /\ RequestsKept
           /\ \A id \in Ids : Known(id) => Known(id)'
           /\ \A id \in Ids : id \in holds[w] /\ KindOf(w) = "create" => Known(id)'
           /\ \A v \in Workers \ {w} : Request(v)' = Request(v) /\ KindOf(v)' = KindOf(v)
           /\ \A v \in Workers : Creating(v)' => v # w /\ Creating(v)
           /\ \A v \in Workers : Closing(v)' => v # w /\ Closing(v)
<1> USE DEF EndTransaction
<1>1. pc'[w] = "idle" /\ Others(w)
    BY DEF Commit, Inv, TypeOK, Others, Still
<1>2. RequestsKept /\ requests' = requests /\ serial' = serial
    BY DEF Commit, RequestsKept
<1>3. \A v \in Workers \ {w} : Request(v)' = Request(v) /\ KindOf(v)' = KindOf(v)
    BY <1>1, <1>2 DEF Others, Still, Request, KindOf
<1>4. \A v \in Workers : /\ Creating(v)' => v # w /\ Creating(v) /\ target'[v] = target[v]
                         /\ Closing(v)' => v # w /\ Closing(v)
    BY <1>1, <1>3 DEF Others, Still, Creating, Closing
<1>5. \A id \in Ids : Known(id) => Known(id)'
    BY <1>2, <1>4 DEF Known
<1>6. ASSUME NEW id \in Ids, id \in holds[w], KindOf(w) = "create"
      PROVE  Known(id)'
    <2>1. pc[w] = "commit"
        BY DEF Commit
    <2>2. id \in 1..serial
        BY <1>6, <2>1, AtCommit DEF CreateLocal
    <2>3. ASSUME NEW v \in Workers \ {w}, Creating(v) PROVE target[v] # id
        <3>1. target[v] \in holds[v]
            BY <2>3 DEF Inv, Local, Creating, CreateLocal
        <3>2. holds[v] \cap holds[w] = {}
            BY DEF Inv, Apart
        <3> QED
            BY <1>6, <3>1, <3>2
    <2> QED
        BY <1>2, <1>4, <2>2, <2>3 DEF Known
<1> QED
    BY <1>1, <1>2, <1>3, <1>4, <1>5, <1>6

LEMMA CommitFrame ==
    ASSUME Inv, NEW w \in Workers, Commit(w), NEW v \in Workers \ {w}
    PROVE  Frame(v)
<1>1. pc[w] = "commit" /\ Apart(v, w) /\ Apart(w, v)
    BY DEF Commit, Inv
<1>2. holds[v] \cap holds[w] = {} /\ holds[v] \subseteq Ids
    BY <1>1 DEF Apart, Inv, TypeOK
<1>3. ASSUME NEW id \in Ids, Known(id)
      PROVE  /\ Known(id)'
             /\ rows'[id] # NoRow => Row_(id) /\ rows'[id].owner = rows[id].owner
    <2>1. Known(id)'
        BY <1>3, CommitKnown
    <2>2. ~(KindOf(w) = "create" /\ id \in holds[w])
        BY <1>1, <1>3, AtCommit DEF Known, Creating, Saves
    <2> QED
        BY <2>1, <2>2, CommitRows
<1>4. \A id \in holds[v] : rows'[id] = rows[id] /\ Of(id)' = Of(id)
    BY <1>2, CommitEffect
<1>5. Creating(v) => Request(v).user \in accounts'
    <2> SUFFICES ASSUME Creating(v) PROVE Request(v).user \in accounts'
        OBVIOUS
    <2>1. Request(v).user \in accounts
        BY DEF Inv, Local, Creating, CreateLocal
    <2>2. KindOf(w) = "close" => Request(v).user # Request(w).user
        BY <1>1 DEF Apart, Closing
    <2> QED
        BY <2>1, <2>2 DEF Commit
<1>6. Closing(v) => OwnedBy(Request(v).user)' \subseteq OwnedBy(Request(v).user)
    <2> SUFFICES ASSUME Closing(v), NEW id \in Ids, rows'[id] # NoRow,
                        rows'[id].owner = Request(v).user
                 PROVE  Row_(id) /\ rows[id].owner = Request(v).user
        <3>1. (Request(v).user)' = Request(v).user
            BY CommitKnown
        <3> QED
            BY <3>1 DEF OwnedBy, Row_
    <2>1. ~(KindOf(w) = "create" /\ rows'[id].owner = Request(w).user)
        BY <1>1 DEF Apart, Creating
    <2> QED
        BY <2>1, CommitRows
<1>7. serial \in Nat /\ serial' = serial
    BY ConfigStoreAssumption DEF Commit, Inv, TypeOK
<1> QED
    BY <1>3, <1>4, <1>5, <1>6, <1>7, CommitKnown DEF Frame, Others, Row_

LEMMA CommitType ==
    ASSUME Inv, NEW w \in Workers, Commit(w)
    PROVE  TypeOK'
<1> USE DEF EndTransaction
<1>1. pc[w] = "commit" /\ req[w] \in RequestIds /\ holds[w] \subseteq Ids
    BY AtCommit DEF Commit, Inv, TypeOK
<1>2. /\ pc' \in [Workers -> PcState]
      /\ seen' \in [Workers -> SUBSET Batches] /\ todo' \in [Workers -> SUBSET Ids]
      /\ holds' \in [Workers -> SUBSET Ids] /\ wiped' \in [Workers -> SUBSET Batches]
    BY DEF Commit, Inv, TypeOK, PcState
<1>3. req' \in [Workers -> 0..MaxRequests] /\ target' \in [Workers -> 0..MaxIds]
    BY ConfigStoreAssumption DEF Commit, Inv, TypeOK
<1>4. listing' \in [Workers -> [Ids -> Entry \cup {NoRow}]]
    <2>1. NoListing \in [Ids -> Entry \cup {NoRow}]
        BY DEF NoListing
    <2> QED
        BY <2>1 DEF Commit, Inv, TypeOK
<1>5. rows' \in [Ids -> Row \cup {NoRow}]
    <2>1. \A id \in holds[w] : rows'[id] \in Row \cup {NoRow}
        <3>1. [owner |-> Request(w).user, name |-> req[w]] \in Row
            BY <1>1, AtCommit DEF Row
        <3> QED
            BY <3>1, CommitEffect
    <2>2. \A id \in Ids \ holds[w] : rows'[id] \in Row \cup {NoRow}
        BY CommitEffect DEF Inv, TypeOK
    <2>3. rows' = [id \in Ids |-> rows'[id]]
        BY DEF Commit
    <2> QED
        BY <2>1, <2>2, <2>3
<1>6. Stored(w) \subseteq Batches
    <2>1. Saves(w) => target[w] \in Ids
        BY <1>1, AtCommit DEF Saves
    <2> QED
        BY <1>1, <2>1 DEF Stored, Saves, Batches
<1>7. parts' \subseteq Batches
    BY <1>6 DEF Commit, Inv, TypeOK
<1>8. log' \in Seq(Commits)
    <2>1. [by |-> req[w], on |-> holds[w], put |-> Stored(w)] \in Commits
        BY <1>1, <1>6 DEF Commits
    <2> QED
        BY <2>1 DEF Commit, Inv, TypeOK
<1>9. accounts' \subseteq Users /\ answered' \subseteq RequestIds
    BY <1>1 DEF Commit, Inv, TypeOK
<1> QED
    BY <1>2, <1>3, <1>4, <1>5, <1>7, <1>8, <1>9 DEF Commit, Inv, TypeOK

LEMMA CommitShared ==
    ASSUME Inv, NEW w \in Workers, Commit(w)
    PROVE  Shared'
<1> DEFINE user == Request(w).user
           entry == [by |-> req[w], on |-> holds[w], put |-> Stored(w)]
<1>1. pc[w] = "commit" /\ req[w] \in DOMAIN requests /\ requests' = requests
    BY AtCommit DEF Commit
<1>2. log' = Append(log, entry) /\ answered' = answered \cup {req[w]} /\ lost' = lost
    BY DEF Commit
<1>3. RowsKnown'
    <2> SUFFICES ASSUME NEW id \in Ids, rows'[id] # NoRow
                 PROVE  Known(id)' /\ rows'[id].name \in DOMAIN requests
        BY <1>1 DEF RowsKnown, Row_
    <2>1. Known(id)'
        <3>1. CASE Row_(id)
            BY <3>1, CommitKnown DEF Inv, Shared, RowsKnown
        <3>2. CASE ~Row_(id)
            BY <3>2, CommitRows, CommitKnown
        <3> QED
            BY <3>1, <3>2
    <2>2. CASE id \in holds[w]
        <3>1. Saves(w)
            BY <2>2, CommitEffect
        <3>2. rows'[id] = [owner |-> user, name |-> req[w]]
            BY <2>2, <3>1, CommitEffect
        <3> QED
            BY <1>1, <2>1, <3>2
    <2>3. CASE id \notin holds[w]
        <3>1. rows'[id] = rows[id]
            BY <2>3, CommitEffect
        <3> QED
            BY <2>1, <3>1 DEF Inv, Shared, RowsKnown, Row_
    <2> QED
        BY <2>2, <2>3
<1>4. SavedTogether'
    <2> SUFFICES ASSUME NEW id \in Ids
                 PROVE  PartsOf(id)' = IF rows'[id] = NoRow \/ requests[rows'[id].name].bare
                                       THEN {} ELSE {rows'[id].name}
        BY <1>1 DEF SavedTogether
    <2>1. PartsOf(id) = IF rows[id] = NoRow \/ requests[rows[id].name].bare
                        THEN {} ELSE {rows[id].name}
        BY DEF Inv, Shared, SavedTogether
    <2>2. PartsOf(id)' = {n \in RequestIds : <<id, n>> \in Of(id)'}
        BY DEF PartsOf, Of
    <2>3. PartsOf(id) = {n \in RequestIds : <<id, n>> \in Of(id)}
        BY DEF PartsOf, Of
    <2>4. CASE id \notin holds[w]
        <3>1. rows'[id] = rows[id] /\ Of(id)' = Of(id)
            BY <2>4, CommitEffect
        <3> QED
            BY <2>1, <2>2, <2>3, <3>1
    <2>5. CASE id \in holds[w] /\ ~Saves(w)
        <3>1. rows'[id] = NoRow /\ Of(id)' = {}
            BY <2>5, CommitEffect
        <3> QED
            BY <2>2, <3>1
    <2>6. CASE id \in holds[w] /\ Saves(w)
        <3>1. rows'[id] = [owner |-> user, name |-> req[w]] /\ Of(id)' = Stored(w)
            BY <2>6, CommitEffect
        <3>2. rows'[id] # NoRow
            <4>1. user \in Users /\ req[w] \in RequestIds
                BY <1>1, AtCommit
            <4>2. [owner |-> user, name |-> req[w]] \in Row
                BY <4>1 DEF Row
            <4> QED
                BY <3>1, <4>2, ConfigStoreAssumption
        <3>3. rows'[id].name = req[w] /\ req[w] \in RequestIds /\ id = target[w]
            BY <1>1, <2>6, <3>1, AtCommit
        <3>4. Stored(w) = IF requests[req[w]].bare THEN {} ELSE {<<id, req[w]>>}
            BY <2>6, <3>3 DEF Stored, Saves, Request
        <3> QED
            BY <2>2, <3>1, <3>2, <3>3, <3>4
    <2> QED
        BY <2>4, <2>5, <2>6
<1>5. \A i \in DOMAIN log : i \in DOMAIN log' /\ log'[i] = log[i]
    BY <1>2 DEF Inv, TypeOK
<1>6. Len(log) + 1 \in DOMAIN log' /\ log'[Len(log) + 1] = entry
      /\ DOMAIN log' = DOMAIN log \cup {Len(log) + 1}
    BY <1>2 DEF Inv, TypeOK
<1>7. RequestsOnce'
    <2>1. Done' = Done \cup {req[w]}
        BY <1>5, <1>6 DEF Done
    <2>2. \A v \in Workers : pc'[v] # "idle" =>
            v # w /\ pc[v] # "idle" /\ req'[v] = req[v]
        BY CommitKnown DEF Others, Still
    <2>3. \A v \in Workers \ {w} : pc[v] # "idle" => req[v] # req[w]
        BY <1>1 DEF Inv, Apart
    <2> QED
        BY <1>1, <1>2, <2>1, <2>2, <2>3 DEF Inv, Shared, RequestsOnce
<1>8. ASSUME NEW m \in answered' \ lost' PROVE Kept(m)'
    <2>1. requests'[m] = requests[m] /\ requests[m] \in Calls /\ m \in DOMAIN requests
        BY <1>1, <1>2 DEF Inv, TypeOK, Shared, RequestsOnce
    <2>2. requests[m].id \in Ids
        BY <2>1, ConfigStoreAssumption DEF Call
    <2>3. CASE m = req[w]
        <3>1. requests[m] = Request(w) /\ requests[m].kind = KindOf(w) /\ requests[m].user = user
            BY <2>3 DEF Request, KindOf
        <3>2. KindOf(w) \in {"create", "update"} =>
                \E i \in DOMAIN log' : log'[i].by = m /\ log'[i].on # {}
            <4>1. Saves(w) => holds[w] # {}
                BY <1>1, AtCommit
            <4>2. entry.by = m /\ entry.on = holds[w]
                BY <2>3
            <4> QED
                BY <1>6, <4>1, <4>2 DEF Saves
        <3>3. KindOf(w) = "delete" => Known(requests[m].id)' /\ rows'[requests[m].id] = NoRow
            <4> SUFFICES ASSUME KindOf(w) = "delete"
                         PROVE  Known(requests[m].id)' /\ rows'[requests[m].id] = NoRow
                OBVIOUS
            <4>1. /\ target[w] = requests[m].id /\ Theirs(target[w], user)
                  /\ holds[w] = Existing(target[w])
                BY <1>1, <3>1, AtCommit DEF DeleteLocal
            <4>2. \A id \in Ids : id = target[w] => Known(id)'
                BY <4>1, CommitKnown DEF Theirs
            <4>3. \A id \in Ids : id = target[w] => rows'[id] = NoRow
                <5>1. ~Saves(w)
                    BY DEF Saves
                <5>2. Row_(target[w]) => target[w] \in holds[w]
                    BY <4>1 DEF Existing
                <5> QED
                    BY <5>1, <5>2, CommitEffect DEF Row_
            <4>4. \A id \in Ids : id = requests[m].id => Known(id)' /\ rows'[id] = NoRow
                BY <4>1, <4>2, <4>3
            <4>5. (requests[m].id)' = requests[m].id
                BY <2>1
            <4> QED
                BY <2>2, <4>4, <4>5 DEF Known
        <3>4. KindOf(w) = "close" => user \notin accounts' /\ OwnedBy(requests[m].user)' = {}
            <4> SUFFICES ASSUME KindOf(w) = "close"
                         PROVE  user \notin accounts' /\ OwnedBy(requests[m].user)' = {}
                OBVIOUS
            <4>1. user \notin accounts'
                BY DEF Commit
            <4>2. OwnedBy(user) \subseteq holds[w] /\ ~Saves(w)
                BY <1>1, AtCommit DEF CloseLocal, Saves
            <4>3. ASSUME NEW id \in Ids, rows'[id] # NoRow, rows'[id].owner = user PROVE FALSE
                <5>1. id \notin holds[w]
                    BY <4>2, <4>3, CommitEffect
                <5>2. rows'[id] = rows[id]
                    BY <5>1, CommitEffect
                <5> QED
                    BY <4>2, <4>3, <5>1, <5>2 DEF OwnedBy, Row_
            <4>4. (requests[m].user)' = user
                BY <2>1, <3>1
            <4> QED
                BY <4>1, <4>3, <4>4 DEF OwnedBy, Row_
        <3>5. (requests[m].kind)' = KindOf(w) /\ (requests[m].user)' = user
            BY <2>1, <3>1
        <3> QED
            BY <2>1, <3>2, <3>3, <3>4, <3>5 DEF Kept, Row_
    <2>4. CASE m # req[w]
        <3>1. Kept(m)
            BY <1>2, <2>4 DEF Inv, Shared
        <3>2. requests[m].kind \in {"create", "update"} =>
                \E i \in DOMAIN log' : log'[i].by = m /\ log'[i].on # {}
            BY <1>5, <3>1 DEF Kept
        <3>3. requests[m].kind = "delete" => Known(requests[m].id)' /\ rows'[requests[m].id] = NoRow
            <4>1. ASSUME NEW id \in Ids, Known(id), ~Row_(id)
                  PROVE  Known(id)' /\ rows'[id] = NoRow
                <5>1. ~(KindOf(w) = "create" /\ id \in holds[w])
                    BY <1>1, <4>1, AtCommit DEF Known, Creating, Saves
                <5> QED
                    BY <4>1, <5>1, CommitKnown, CommitRows
            <4>2. \A id \in Ids : id = requests[m].id /\ requests[m].kind = "delete" =>
                    Known(id)' /\ rows'[id] = NoRow
                BY <3>1, <4>1 DEF Kept
            <4>3. (requests[m].id)' = requests[m].id
                BY <2>1
            <4> QED
                BY <2>2, <4>2, <4>3 DEF Known
        <3>4. requests[m].kind = "close" =>
                requests[m].user \notin accounts' /\ OwnedBy(requests[m].user)' = {}
            <4> SUFFICES ASSUME requests[m].kind = "close"
                         PROVE  requests[m].user \notin accounts' /\ OwnedBy(requests[m].user)' = {}
                OBVIOUS
            <4>1. requests[m].user \notin accounts /\ OwnedBy(requests[m].user) = {}
                BY <3>1 DEF Kept
            <4>2. requests[m].user \notin accounts'
                BY <4>1 DEF Commit
            <4>3. ASSUME NEW id \in Ids, rows'[id] # NoRow, rows'[id].owner = requests[m].user
                  PROVE  FALSE
                <5>1. ~(Row_(id) /\ rows'[id].owner = rows[id].owner)
                    BY <4>1, <4>3 DEF OwnedBy
                <5>2. KindOf(w) = "create" /\ rows'[id].owner = user
                    BY <4>3, <5>1, CommitRows
                <5>3. user \in accounts
                    BY <1>1, <5>2, AtCommit DEF CreateLocal
                <5> QED
                    BY <4>1, <4>3, <5>2, <5>3
            <4>4. (requests[m].user)' = requests[m].user
                BY <2>1
            <4> QED
                BY <4>2, <4>3, <4>4 DEF OwnedBy, Row_
        <3>5. (requests[m].kind)' = requests[m].kind /\ (requests[m].user)' = requests[m].user
            BY <2>1
        <3> QED
            BY <2>1, <3>2, <3>3, <3>4, <3>5 DEF Kept, Row_
    <2> QED
        BY <2>3, <2>4
<1> QED
    BY <1>3, <1>4, <1>7, <1>8 DEF Shared

LEMMA CommitKeeps ==
    ASSUME Inv, NEW w \in Workers, Commit(w)
    PROVE  Inv'
<1>1. TypeOK' /\ Shared' /\ \A v \in Workers \ {w} : Frame(v)
    BY CommitType, CommitShared, CommitFrame
<1>2. pc'[w] = "idle" /\ holds'[w] = {} /\ wiped'[w] = {}
    BY DEF Commit, EndTransaction, Inv, TypeOK
<1>3. Local(w)'
    BY <1>2 DEF Local, Untouched
<1>4. \A v \in Workers \ {w} : Apart(v, w)' /\ Apart(w, v)'
    BY <1>2 DEF Apart, Creating, Closing
<1> QED
    BY <1>1, <1>3, <1>4, FramesKeep

LEMMA InvNext == Inv /\ [Next]_vars => Inv'
<1> SUFFICES ASSUME Inv, [Next]_vars PROVE Inv'
    OBVIOUS
<1>1. CASE UNCHANGED vars
    <2>1. UNCHANGED <<accounts, rows, parts, serial, requests, pc, req, target, seen, todo,
                      holds, wiped, listing, log, answered, lost>>
        BY <1>1 DEF vars, tables, tx, history
    <2>2. TypeOK'
        BY <2>1 DEF Inv, TypeOK
    <2>3. \A w \in Workers : Local(w)'
        BY <2>1 DEF Inv, Local, CreateLocal, UpdateLocal, DeleteLocal, CloseLocal, ListLocal,
                    Untouched, Theirs, Known, Creating, Existing, OwnedBy, Of, Row_,
                    KindOf, Request
    <2>4. \A v, w \in Workers : v # w => Apart(v, w)'
        BY <2>1 DEF Inv, Apart, Creating, Closing, KindOf, Request
    <2>5. Shared'
        BY <2>1 DEF Inv, Shared, RowsKnown, Known, Creating, KindOf, Request, Row_,
                    SavedTogether, PartsOf, RequestsOnce, Done, Kept, OwnedBy
    <2> QED
        BY <2>2, <2>3, <2>4, <2>5 DEF Inv
<1>2. CASE Next
    <2>1. PICK w \in Workers :
             \/ Receive(w) \/ Refuse(w) \/ StatementFails(w)
             \/ CancelDeadlocked(w) \/ Step(w) \/ CommitFails(w)
             \/ PartsCutShort(w) \/ RowsCutShort(w)
        BY <1>2 DEF Next
    <2>2. CASE Receive(w)
        BY <2>2, ReceiveKeeps
    <2>3. CASE Refuse(w) \/ StatementFails(w) \/ CancelDeadlocked(w)
        BY <2>3, GivenUpKeeps
    <2>4. CASE CommitFails(w)
        BY <2>4, CommitFailsKeeps
    <2>5. CASE Step(w)
        <3>1. CASE InsertConfiguration(w)
            BY <3>1, InsertConfigurationKeeps
        <3>2. CASE Check(w)
            BY <3>2, CheckKeeps
        <3>3. CASE UpdateConfiguration(w)
            BY <3>3, UpdateConfigurationKeeps
        <3>4. CASE LookForParts(w)
            BY <3>4, LookForPartsKeeps
        <3>5. CASE DeleteParts(w)
            BY <3>5, DeletePartsKeeps
        <3>6. CASE InsertParts(w)
            BY <3>6, InsertPartsKeeps
        <3>7. CASE Recheck(w)
            BY <3>7, RecheckKeeps
        <3>8. CASE LockUser(w)
            BY <3>8, LockUserKeeps
        <3>9. CASE RemoveRow(w)
            BY <3>9, RemoveRowKeeps
        <3>10. CASE Commit(w)
            BY <3>10, CommitKeeps
        <3>11. CASE ListRows(w)
            BY <3>11, ListRowsKeeps
        <3>12. CASE ListParts(w)
            BY <3>12, ListPartsKeeps
        <3>13. CASE AnswerListing(w)
            BY <3>13, GivenUpKeeps
        <3> QED
            BY <2>5, <3>1, <3>2, <3>3, <3>4, <3>5, <3>6, <3>7, <3>8, <3>9, <3>10,
               <3>11, <3>12, <3>13 DEF Step
    <2>6. CASE PartsCutShort(w)
        BY <2>6, ListPartsKeeps
    <2>7. CASE RowsCutShort(w)
        BY <2>7, RowsCutShortKeeps
    <2> QED
        BY <2>1, <2>2, <2>3, <2>4, <2>5, <2>6, <2>7
<1> QED
    BY <1>1, <1>2

LEMMA InvInvariant == Spec => []Inv
BY InvInit, InvNext, PTL DEF Spec

-----------------------------------------------------------------------------
\* The columns of the two tables and the variables of every worker keep their
\* types, for any number of users, workers and requests (repo.go).
THEOREM TypeCorrect == Spec => []TypeOK
<1>1. Inv => TypeOK
    BY DEF Inv
<1> QED
    BY <1>1, InvInvariant, PTL

\* However updates and deletions of it overlap, a stored configuration has
\* exactly the components of the request that gave it its name
\* (UpdateConfiguration, DeleteConfiguration).
THEOREM SavedTogetherAlways == Spec => []SavedTogether
<1>1. Inv => SavedTogether
    BY DEF Inv, Shared
<1> QED
    BY <1>1, InvInvariant, PTL

\* What was answered with success was carried out, unless the commit failed
\* unnoticed (the repeated SELECT of UpdateConfiguration).
THEOREM SuccessIsLastingAlways == Spec => []SuccessIsLasting
<1>1. ASSUME Inv PROVE SuccessIsLasting
    <2> SUFFICES ASSUME NEW n \in answered \ lost
                 PROVE  CASE requests[n].kind \in {"create", "update"} ->
                               \E i \in DOMAIN log : log[i].by = n /\ log[i].on # {}
                          [] requests[n].kind = "delete" -> rows[requests[n].id] = NoRow
                          [] requests[n].kind = "close" ->
                               \A id \in Ids : rows[id] # NoRow =>
                                   rows[id].owner # requests[n].user
                          [] OTHER -> TRUE
        BY DEF SuccessIsLasting
    <2>1. Kept(n)
        BY <1>1 DEF Inv, Shared
    <2>2. requests[n].kind = "close" =>
            \A id \in Ids : rows[id] # NoRow => rows[id].owner # requests[n].user
        BY <2>1 DEF Kept, OwnedBy, Row_
    <2> QED
        BY <2>1, <2>2 DEF Kept, Row_
<1> QED
    BY <1>1, InvInvariant, PTL

-----------------------------------------------------------------------------
(* The refinement: a commit is the operation of SavedConfigurations that   *)
(* its request asks for, and every other step leaves the book alone.       *)

LEMMA BookIsUnchanged ==
    ASSUME UNCHANGED <<rows, parts>>
    PROVE  Book' = Book
BY DEF Book, PartsOf

LEMMA CommitBook ==
    ASSUME Inv, NEW w \in Workers, Commit(w), NEW id \in Ids
    PROVE  /\ id \notin holds[w] => Book'[id] = Book[id]
           /\ id \in holds[w] /\ Saves(w) =>
                Book'[id] = [owner |-> Request(w).user, name |-> req[w],
                             parts |-> IF Request(w).bare THEN {} ELSE {req[w]}]
           /\ id \in holds[w] /\ ~Saves(w) => Book'[id] = NoRow
<1>1. Book[id] = IF rows[id] = NoRow THEN NoRow
                 ELSE [owner |-> rows[id].owner, name |-> rows[id].name, parts |-> PartsOf(id)]
    BY DEF Book
<1>2. Book'[id] = IF rows'[id] = NoRow THEN NoRow
                  ELSE [owner |-> rows'[id].owner, name |-> rows'[id].name, parts |-> PartsOf(id)']
    BY DEF Book
<1>3. PartsOf(id) = IF rows[id] = NoRow \/ requests[rows[id].name].bare
                    THEN {} ELSE {rows[id].name}
    BY DEF Inv, Shared, SavedTogether
<1>4. PartsOf(id)' = IF rows'[id] = NoRow \/ requests[rows'[id].name].bare
                     THEN {} ELSE {rows'[id].name}
    <2>1. requests' = requests
        BY DEF Commit
    <2> QED
        BY <2>1, CommitShared DEF Shared, SavedTogether
<1>5. CASE id \notin holds[w]
    <2>1. rows'[id] = rows[id]
        BY <1>5, CommitEffect
    <2> QED
        BY <1>1, <1>2, <1>3, <1>4, <1>5, <2>1
<1>6. CASE id \in holds[w] /\ Saves(w)
    <2>1. rows'[id] = [owner |-> Request(w).user, name |-> req[w]]
        BY <1>6, CommitEffect
    <2>2. rows'[id] # NoRow
        <3>1. [owner |-> Request(w).user, name |-> req[w]] \in Row
            BY AtCommit DEF Row, Commit
        <3> QED
            BY <2>1, <3>1, ConfigStoreAssumption
    <2>3. PartsOf(id)' = IF Request(w).bare THEN {} ELSE {req[w]}
        BY <1>4, <2>1, <2>2 DEF Request
    <2>4. rows'[id].owner = Request(w).user /\ rows'[id].name = req[w]
        BY <2>1
    <2> QED
        BY <1>2, <1>6, <2>2, <2>3, <2>4
<1>7. CASE id \in holds[w] /\ ~Saves(w)
    <2>1. rows'[id] = NoRow
        BY <1>7, CommitEffect
    <2> QED
        BY <1>2, <1>7, <2>1
<1> QED
    BY <1>5, <1>6, <1>7

\* In the book, a configuration stands as the row it has.
LEMMA BookRow ==
    ASSUME TypeOK, NEW id \in Ids
    PROVE  /\ Book[id] = NoRow <=> rows[id] = NoRow
           /\ rows[id] # NoRow => Book[id].owner = rows[id].owner
<1>1. CASE rows[id] # NoRow
    <2>1. rows[id] \in Row /\ PartsOf(id) \subseteq RequestIds
        BY <1>1 DEF TypeOK, PartsOf
    <2>2. [owner |-> rows[id].owner, name |-> rows[id].name, parts |-> PartsOf(id)] \in Chapter
        BY <2>1 DEF Row, Chapter
    <2>3. Book[id] = [owner |-> rows[id].owner, name |-> rows[id].name, parts |-> PartsOf(id)]
        BY <1>1 DEF Book
    <2> QED
        BY <1>1, <2>2, <2>3, ConfigStoreAssumption
<1>2. CASE rows[id] = NoRow
    BY <1>2 DEF Book
<1> QED
    BY <1>1, <1>2

LEMMA CommitImplements ==
    ASSUME Inv, NEW w \in Workers, Commit(w)
    PROVE  Saved!Next
<1> SUFFICES ASSUME NEW n, n = req[w] PROVE Saved!Next
    OBVIOUS
<1> DEFINE user == Request(w).user
           contents == IF Request(w).bare THEN {} ELSE {n}
<1>1. pc[w] = "commit" /\ n \in DOMAIN requests /\ Request(w) = requests[n]
      /\ KindOf(w) = requests[n].kind
    BY AtCommit DEF Commit, Request, KindOf
<1>2. Done' = Done \cup {n}
    <2>1. log \in Seq(Commits) /\ log' = Append(log, [by |-> n, on |-> holds[w], put |-> Stored(w)])
        BY DEF Inv, TypeOK, Commit
    <2>2. \A i \in DOMAIN log : i \in DOMAIN log' /\ log'[i] = log[i]
        BY <2>1
    <2>3. /\ DOMAIN log' = DOMAIN log \cup {Len(log) + 1}
          /\ log'[Len(log) + 1].by = n
        BY <2>1
    <2> QED
        BY <2>2, <2>3 DEF Done
<1>3. n \notin Done /\ requests' = requests
    BY <1>1 DEF Inv, Shared, RequestsOnce, Commit
<1>4. \A kind : kind = KindOf(w) => Saved!TakesEffect(n, kind)
    BY <1>1, <1>2, <1>3 DEF Saved!TakesEffect, Done
<1>5. Book' = [id \in Ids |-> Book'[id]] /\ Book = [id \in Ids |-> Book[id]]
    BY DEF Book
<1>6. KindOf(w) # "close" => accounts' = accounts
    BY DEF Commit
<1>7. Saves(w) => Book' = [Book EXCEPT ![target[w]] =
                             [owner |-> user, name |-> n, parts |-> contents]]
    <2> SUFFICES ASSUME Saves(w)
                 PROVE  \A id \in Ids : Book'[id] =
                          IF id = target[w] THEN [owner |-> user, name |-> n, parts |-> contents]
                          ELSE Book[id]
        BY <1>5
    <2>1. holds[w] = {target[w]}
        BY <1>1, AtCommit
    <2> QED
        BY <2>1, CommitBook
<1>8. CASE KindOf(w) = "create"
    <2>1. target[w] \in Ids /\ rows[target[w]] = NoRow /\ user \in accounts
        BY <1>1, <1>8, AtCommit DEF CreateLocal, Row_
    <2>2. Book[target[w]] = NoRow
        BY <2>1, BookRow DEF Inv
    <2>3. Saved!Create(n)
        BY <1>1, <1>4, <1>6, <1>7, <1>8, <2>1, <2>2 DEF Saved!Create, Saved!Contents, Saves
    <2> QED
        BY <1>1, <2>3 DEF Saved!Next
<1>9. CASE KindOf(w) = "update"
    <2>1. /\ target[w] \in Ids /\ rows[target[w]] # NoRow /\ rows[target[w]].owner = user
          /\ target[w] = requests[n].id
        BY <1>1, <1>9, AtCommit DEF UpdateLocal, Row_
    <2>2. Saved!Owned(n, requests[n].id)
        BY <1>1, <2>1, BookRow DEF Inv, Saved!Owned
    <2>3. Saved!Replace(n)
        BY <1>1, <1>4, <1>6, <1>7, <1>9, <2>1, <2>2 DEF Saved!Replace, Saved!Contents, Saves
    <2> QED
        BY <1>1, <2>3 DEF Saved!Next
<1>10. CASE KindOf(w) = "delete"
    <2>1. /\ target[w] \in Ids /\ target[w] = requests[n].id /\ Theirs(target[w], user)
          /\ holds[w] = Existing(target[w])
        BY <1>1, <1>10, AtCommit DEF DeleteLocal
    <2>2. Saved!Owned(n, requests[n].id) \/ Book[requests[n].id] = NoRow
        BY <1>1, <2>1, BookRow DEF Inv, Saved!Owned, Theirs, Row_
    <2>3. Book' = [Book EXCEPT ![requests[n].id] = NoRow]
        <3> SUFFICES ASSUME NEW id \in Ids
                     PROVE  Book'[id] = IF id = target[w] THEN NoRow ELSE Book[id]
            BY <1>5, <2>1
        <3>1. ~Saves(w)
            BY <1>10 DEF Saves
        <3>2. CASE id \in holds[w]
            BY <2>1, <3>1, <3>2, CommitBook DEF Existing
        <3>3. CASE id \notin holds[w]
            <4>1. id = target[w] => Book[id] = NoRow
                BY <2>1, <3>3, BookRow DEF Inv, Existing, Row_
            <4> QED
                BY <3>3, <4>1, CommitBook
        <3> QED
            BY <3>2, <3>3
    <2>4. Saved!Remove(n)
        BY <1>1, <1>4, <1>6, <1>10, <2>2, <2>3 DEF Saved!Remove
    <2> QED
        BY <1>1, <2>4 DEF Saved!Next
<1>11. CASE KindOf(w) = "close"
    <2>1. OwnedBy(user) \subseteq holds[w] /\ holds[w] \subseteq OwnedBy(user) /\ ~Saves(w)
        BY <1>1, <1>11, AtCommit DEF CloseLocal, Saves
    <2>2. \A id \in Ids : Saved!Owned(n, id) <=> id \in OwnedBy(user)
        BY <1>1, BookRow DEF Inv, Saved!Owned, OwnedBy, Row_
    <2>3. Book' = [id \in Ids |-> IF Saved!Owned(n, id) THEN NoRow ELSE Book[id]]
        BY <1>5, <2>1, <2>2, CommitBook
    <2>4. accounts' = accounts \ {requests[n].user}
        BY <1>1, <1>11 DEF Commit
    <2>5. Saved!CloseAccount(n)
        BY <1>1, <1>4, <1>11, <2>3, <2>4 DEF Saved!CloseAccount
    <2> QED
        BY <1>1, <2>5 DEF Saved!Next
<1> QED
    BY <1>1, <1>8, <1>9, <1>10, <1>11, AtCommit

LEMMA StepImplements ==
    ASSUME Inv, [Next]_vars
    PROVE  Saved!Next \/ UNCHANGED Saved!vars
<1>1. CASE UNCHANGED <<accounts, rows, parts, requests, log>>
    BY <1>1, BookIsUnchanged DEF Saved!vars
<1>2. CASE UNCHANGED vars
    BY <1>1, <1>2 DEF vars, tables, history
<1>3. CASE Next
    <2>1. PICK w \in Workers :
             \/ Receive(w) \/ Refuse(w) \/ StatementFails(w)
             \/ CancelDeadlocked(w) \/ Step(w) \/ CommitFails(w)
             \/ PartsCutShort(w) \/ RowsCutShort(w)
        BY <1>3 DEF Next
    <2>2. CASE Receive(w)
        <3>1. Book' = Book /\ accounts' = accounts /\ log' = log
            BY <2>2, BookIsUnchanged DEF Receive, tables, history
        <3>2. \E call \in Calls : requests' = Append(requests, call)
            BY <2>2 DEF Receive
        <3>3. Saved!Ask
            BY <3>1, <3>2 DEF Saved!Ask
        <3> QED
            BY <3>3 DEF Saved!Next
    <2>3. CASE Refuse(w) \/ StatementFails(w) \/ CancelDeadlocked(w)
        BY <1>1, <2>3 DEF Refuse, StatementFails, CancelDeadlocked, Rollback, tables, history
    <2>4. CASE CommitFails(w)
        BY <1>1, <2>4 DEF CommitFails, tables
    <2>5. CASE Commit(w)
        BY <2>5, CommitImplements
    <2>6. CASE InsertConfiguration(w)
        BY <1>1, <2>6 DEF InsertConfiguration, Rollback, tables, history
    <2>7. CASE Check(w) \/ Recheck(w) \/ InsertParts(w)
        BY <1>1, <2>7 DEF Check, Recheck, InsertParts, Rollback, Lasting, tables, history
    <2>8. CASE UpdateConfiguration(w) \/ LookForParts(w) \/ DeleteParts(w)
        BY <1>1, <2>8 DEF UpdateConfiguration, LookForParts, DeleteParts, Lasting, tables, history
    <2>9. CASE LockUser(w) \/ RemoveRow(w)
        BY <1>1, <2>9 DEF LockUser, RemoveRow, Lasting, tables, history
    <2>10. CASE ListRows(w) \/ AnswerListing(w)
        BY <1>1, <2>10 DEF ListRows, AnswerListing, Rollback, Lasting, tables, history
    <2>11. CASE ListParts(w) \/ PartsCutShort(w) \/ RowsCutShort(w)
        BY <1>1, <2>11 DEF ListParts, PartsCutShort, RowsCutShort, ReadParts, Lasting,
                           tables, history
    <2> QED
        BY <2>1, <2>2, <2>3, <2>4, <2>5, <2>6, <2>7, <2>8, <2>9, <2>10, <2>11 DEF Step
<1> QED
    BY <1>2, <1>3

\* The statements of the transactions, however they interleave, fail or are
\* cancelled, take effect as the atomic operations of SavedConfigurations
\* (CreateConfiguration, UpdateConfiguration, DeleteConfiguration and the
\* cascade of a deleted account).
THEOREM SavedImplemented == Spec => ImplementsSaved
<1>1. Init => Saved!Init
    <2> SUFFICES ASSUME Init PROVE Saved!Init
        OBVIOUS
    <2>1. Book = [id \in Ids |-> NoRow]
        BY DEF Init, Book
    <2>2. {log[i].by : i \in DOMAIN log} = {}
        BY DEF Init
    <2> QED
        BY <2>1, <2>2 DEF Init, Saved!Init
<1>2. Inv /\ [Next]_vars => [Saved!Next]_(Saved!vars)
    BY StepImplements
<1> QED
    BY <1>1, <1>2, InvInvariant, PTL DEF Spec, ImplementsSaved, Saved!Spec

-----------------------------------------------------------------------------
(* Listings, which read names and components in separate statements while  *)
(* transactions commit in between.  The invariant ties the tables to the   *)
(* commits: what a configuration has is what the last commit that touched  *)
(* it put there.                                                           *)

Touched(i, id) == i \in DOMAIN log /\ id \in log[i].on

PutBy(i, id) == {b[2] : b \in {p \in log[i].put : p[1] = id}}

\* Commit j is the last one that touched id, and its components are there.
LastTouched(j, id) ==
    /\ Touched(j, id)
    /\ \A k \in DOMAIN log : k > j => id \notin log[k].on
    /\ PartsOf(id) = PutBy(j, id)

Logged(id) ==
    /\ (\E i \in DOMAIN log : Touched(i, id)) =>
           \E j \in DOMAIN log : LastTouched(j, id)
    /\ Row_(id) => \E i \in DOMAIN log : Touched(i, id) /\ log[i].by = rows[id].name

\* The components entry names are those commit j put, as far as they were read.
ReadFrom(entry, id, j) ==
    /\ entry.parts \subseteq PutBy(j, id) \X Places
    /\ entry.read = "all" => entry.parts = PutBy(j, id) \X Places

\* What a reader knows of id comes from one commit for the name and, later
\* or the same, one for the components.
FromLog(entry, id) ==
    \E i \in DOMAIN log :
        /\ Touched(i, id) /\ log[i].by = entry.name
        /\ entry.read # "no" => \E j \in DOMAIN log :
               i <= j /\ Touched(j, id) /\ ReadFrom(entry, id, j)

ListingInv ==
    /\ \A id \in Ids : Logged(id)
    /\ \A w \in Workers, id \in Ids :
           listing[w][id] # NoRow => FromLog(listing[w][id], id)

LEMMA ListingInit == Init => ListingInv
<1> SUFFICES ASSUME Init
             PROVE  ListingInv
    OBVIOUS
<1>1. \A id \in Ids : Logged(id)
    BY DEF Init, Logged, Row_
<1>2. \A w \in Workers, id \in Ids : listing[w][id] = NoRow
    BY DEF Init, NoListing
<1> QED
    BY <1>1, <1>2 DEF ListingInv

\* A step that commits nothing leaves the log, the rows and the components,
\* so only the listing of its worker counts.
LEMMA NothingLogged ==
    ASSUME ListingInv, UNCHANGED <<rows, parts, log>>,
           \A w \in Workers, id \in Ids : listing'[w][id] # NoRow =>
               \/ listing'[w][id] = listing[w][id]
               \/ FromLog(listing'[w][id], id)
    PROVE  ListingInv'
<1>1. \A id \in Ids : Logged(id)'
    BY DEF ListingInv, Logged, LastTouched, Touched, PutBy, PartsOf, Row_
<1>2. ASSUME NEW w \in Workers, NEW id \in Ids, listing'[w][id] # NoRow
      PROVE  FromLog(listing[w][id], id)'
    <2>1. FromLog(listing'[w][id], id)
        BY <1>2 DEF ListingInv
    <2> QED
        BY <2>1 DEF FromLog, ReadFrom, Touched, PutBy
<1> QED
    BY <1>1, <1>2 DEF ListingInv

\* The end of a transaction forgets its listing.
LEMMA EndedListing ==
    ASSUME Inv, NEW w \in Workers, EndTransaction(w)
    PROVE  \A v \in Workers, id \in Ids : listing'[v][id] # NoRow =>
               listing'[v][id] = listing[v][id]
    BY DEF EndTransaction, Inv, TypeOK, NoListing

LEMMA ListRowsListed ==
    ASSUME Inv, ListingInv, NEW w \in Workers, ListRows(w)
    PROVE  ListingInv'
<1> DEFINE mine == {id \in Ids : rows[id] # NoRow /\ rows[id].owner = Request(w).user}
           entry(id) == [name |-> rows[id].name, read |-> "no", parts |-> {}]
<1>1. /\ listing' = [listing EXCEPT ![w] =
            [id \in Ids |-> IF id \in mine THEN entry(id) ELSE NoRow]]
      /\ UNCHANGED <<rows, parts, log>>
    BY DEF ListRows, Lasting, tables, history
<1>2. ASSUME NEW id \in mine
      PROVE  FromLog(entry(id), id)
    <2>1. PICK i \in DOMAIN log : Touched(i, id) /\ log[i].by = rows[id].name
        BY <1>2 DEF ListingInv, Logged, Row_
    <2> QED
        BY <2>1 DEF FromLog
<1>3. \A id \in Ids : /\ id \in mine => listing'[w][id] = entry(id)
                      /\ id \notin mine => listing'[w][id] = NoRow
    BY <1>1 DEF Inv, TypeOK
<1>4. \A v \in Workers \ {w} : listing'[v] = listing[v]
    BY <1>1 DEF Inv, TypeOK
<1> HIDE DEF entry, mine
<1>5. \A v \in Workers, id \in Ids : listing'[v][id] # NoRow =>
          listing'[v][id] = listing[v][id] \/ FromLog(listing'[v][id], id)
    BY <1>2, <1>3, <1>4
<1> QED
    BY <1>1, <1>5, NothingLogged

LEMMA ReadPartsListed ==
    ASSUME Inv, ListingInv, NEW w \in Workers, NEW id \in todo[w], pc[w] = "listParts",
           NEW how \in {"part", "all"}, NEW got \in SUBSET Shown(id),
           how = "all" => got = Shown(id),
           ReadParts(w, id, how, got)
    PROVE  ListingInv'
<1>1. listing' = [listing EXCEPT ![w][id] = [name |-> @.name, read |-> how, parts |-> got]]
    BY DEF ReadParts
<1> DEFINE entry == [name |-> listing[w][id].name, read |-> how, parts |-> got]
<1>2. UNCHANGED <<rows, parts, log>> /\ id \in Ids
    BY DEF ReadParts, Lasting, tables, history, Inv, TypeOK
<1>3. listing[w][id] # NoRow
    <2>1. pc[w] = "listParts" /\ Local(w) /\ req[w] \in DOMAIN requests
        BY DEF Inv, Local
    <2>2. ListLocal(w)
        BY <2>1, KindIsKind DEF Inv, Local, CreateLocal, UpdateLocal, DeleteLocal,
                                CloseLocal, Kinds
    <2> QED
        BY <2>1, <2>2 DEF ListLocal
<1>4. FromLog(entry, id)
    <2>1. PICK i \in DOMAIN log : Touched(i, id) /\ log[i].by = listing[w][id].name
        BY <1>2, <1>3 DEF ListingInv, FromLog
    <2>2. PICK j \in DOMAIN log : LastTouched(j, id)
        BY <1>2, <2>1 DEF ListingInv, Logged
    <2>3. i \in Int /\ j \in Int
        BY DEF Inv, TypeOK
    <2>4. i <= j
        BY <2>1, <2>2, <2>3 DEF LastTouched, Touched
    <2>5. ReadFrom(entry, id, j)
        BY <2>2 DEF ReadFrom, LastTouched, Shown
    <2> QED
        BY <2>1, <2>2, <2>4, <2>5 DEF FromLog, LastTouched
<1>5. /\ listing'[w][id] = entry
      /\ \A x \in Ids \ {id} : listing'[w][x] = listing[w][x]
      /\ \A v \in Workers \ {w} : listing'[v] = listing[v]
    BY <1>1, <1>2 DEF Inv, TypeOK
<1> HIDE DEF entry
<1>6. \A v \in Workers, x \in Ids : listing'[v][x] # NoRow =>
          listing'[v][x] = listing[v][x] \/ FromLog(listing'[v][x], x)
    BY <1>4, <1>5
<1> QED
    BY <1>2, <1>6, NothingLogged

LEMMA ListPartsListed ==
    ASSUME Inv, ListingInv, NEW w \in Workers, ListParts(w) \/ PartsCutShort(w)
    PROVE  ListingInv'
    BY ReadPartsListed DEF ListParts, PartsCutShort

LEMMA RowsCutShortListed ==
    ASSUME Inv, ListingInv, NEW w \in Workers, RowsCutShort(w)
    PROVE  ListingInv'
<1>1. /\ listing' = [listing EXCEPT ![w] =
            [id \in Ids |-> IF id \in todo[w] THEN NoRow ELSE listing[w][id]]]
      /\ UNCHANGED <<rows, parts, log>>
    BY DEF RowsCutShort, Lasting, tables, history
<1>2. \A v \in Workers, id \in Ids : listing'[v][id] # NoRow =>
          listing'[v][id] = listing[v][id]
    BY <1>1 DEF Inv, TypeOK
<1> QED
    BY <1>1, <1>2, NothingLogged

(***************************************************************************)
(* A commit becomes the last one of the rows it holds, and what it leaves  *)
(* of their components is what it logs; other rows it does not touch.      *)
(***************************************************************************)
LEMMA CommitListed ==
    ASSUME Inv, ListingInv, NEW w \in Workers, Commit(w)
    PROVE  ListingInv'
<1>0. PICK n : n = Len(log) + 1
    OBVIOUS
<1> DEFINE made == [by |-> req[w], on |-> holds[w], put |-> Stored(w)]
<1>1. pc[w] = "commit" /\ log' = Append(log, made)
    BY DEF Commit
<1>2. log \in Seq(Commits) /\ Len(log) \in Nat /\ DOMAIN log = 1 .. Len(log)
    BY LenProperties DEF Inv, TypeOK
<1>3. made \in Commits
    <2>1. req[w] \in RequestIds /\ holds[w] \in SUBSET Ids
        BY <1>1, AtCommit DEF Inv, TypeOK
    <2>2. Stored(w) \subseteq Batches
        BY <1>1, <2>1, AtCommit DEF Stored, Batches
    <2> QED
        BY <2>1, <2>2 DEF Commits
<1>4. /\ DOMAIN log' = 1 .. n /\ DOMAIN log \subseteq DOMAIN log'
      /\ \A i \in DOMAIN log : log'[i] = log[i]
      /\ log'[n] = made
    <2> HIDE DEF made
    <2> QED
        BY <1>0, <1>1, <1>2, <1>3, AppendProperties
<1>5. \A i \in DOMAIN log' : i \in DOMAIN log \/ i = n
    BY <1>0, <1>2, <1>4
<1>6. \A i \in DOMAIN log, id \in Ids :
          /\ Touched(i, id) => Touched(i, id)'
          /\ PutBy(i, id)' = PutBy(i, id)
    BY <1>4 DEF Touched, PutBy
<1>7. n \in DOMAIN log' /\ \A i \in DOMAIN log : i < n
    BY <1>0, <1>2, <1>4
<1>8. \A id \in Ids : Of(id)' = Of(id) => PartsOf(id)' = PartsOf(id)
    BY DEF Of, PartsOf
<1>9. ASSUME NEW id \in Ids, id \in holds[w]
      PROVE  Logged(id)'
    <2>1. Touched(n, id)'
        BY <1>4, <1>7, <1>9 DEF Touched
    <2>2. \A k \in DOMAIN log' : ~(k > n)
        BY <1>0, <1>2, <1>4
    <2>3. PutBy(n, id)' = {b[2] : b \in {p \in Stored(w) : p[1] = id}}
        BY <1>4 DEF PutBy
    <2>4. PartsOf(id)' = PutBy(n, id)'
        <3>1. CASE Saves(w)
            <4>1. Of(id)' = Stored(w) /\ id = target[w] /\ req[w] \in RequestIds
                BY <1>1, <1>9, <3>1, CommitEffect, AtCommit
            <4>2. CASE Stored(w) = {<<id, req[w]>>}
                <5>1. PutBy(n, id)' = {req[w]}
                    BY <2>3, <4>2
                <5>2. PartsOf(id)' = {m \in RequestIds : <<id, m>> \in Of(id)'}
                    BY DEF PartsOf, Of
                <5>3. PartsOf(id)' = {req[w]}
                    BY <4>1, <4>2, <5>2
                <5> QED
                    BY <5>1, <5>3
            <4>3. CASE Stored(w) = {}
                BY <2>3, <4>1, <4>3 DEF PartsOf, Of
            <4> QED
                BY <4>1, <4>2, <4>3 DEF Stored
        <3>2. CASE ~Saves(w)
            <4>1. Of(id)' = {} /\ Stored(w) = {}
                BY <1>9, <3>2, CommitEffect DEF Stored, Saves
            <4> QED
                BY <2>3, <4>1 DEF PartsOf, Of
        <3> QED
            BY <3>1, <3>2
    <2>5. LastTouched(n, id)'
        BY <2>1, <2>2, <2>4 DEF LastTouched
    <2>6. rows'[id] # NoRow => rows'[id].name = log'[n].by
        <3>1. CASE Saves(w)
            <4>1. rows'[id] = [owner |-> Request(w).user, name |-> req[w]]
                BY <1>9, <3>1, CommitEffect
            <4> QED
                BY <1>4, <4>1
        <3>2. CASE ~Saves(w)
            BY <1>9, <3>2, CommitEffect
        <3> QED
            BY <3>1, <3>2
    <2> QED
        BY <1>7, <2>1, <2>5, <2>6 DEF Logged, Row_
<1>10. ASSUME NEW id \in Ids, id \notin holds[w]
       PROVE  Logged(id)'
    <2>1. rows'[id] = rows[id] /\ PartsOf(id)' = PartsOf(id)
        BY <1>8, <1>10, CommitEffect
    <2>2. \A i \in DOMAIN log' : Touched(i, id)' => i \in DOMAIN log /\ Touched(i, id)
        BY <1>4, <1>5, <1>10 DEF Touched
    <2>3. \A j \in DOMAIN log : LastTouched(j, id) => LastTouched(j, id)'
        <3> SUFFICES ASSUME NEW j \in DOMAIN log, LastTouched(j, id)
                     PROVE  LastTouched(j, id)'
            OBVIOUS
        <3>1. \A k \in DOMAIN log' : k > j => id \notin log'[k].on
            BY <1>4, <1>5, <1>10 DEF LastTouched
        <3> QED
            BY <1>6, <2>1, <3>1 DEF LastTouched
    <2>4. Logged(id)
        BY DEF ListingInv
    <2>5. (\E i \in DOMAIN log' : Touched(i, id)') => \E j \in DOMAIN log' : LastTouched(j, id)'
        BY <1>4, <2>2, <2>3, <2>4 DEF Logged
    <2>6. rows'[id] # NoRow =>
              \E i \in DOMAIN log' : Touched(i, id)' /\ log'[i].by = rows'[id].name
        BY <1>4, <1>6, <2>1, <2>4 DEF Logged, Row_
    <2> QED
        BY <2>5, <2>6 DEF Logged, Row_
<1>11. ASSUME NEW v \in Workers, NEW id \in Ids, listing'[v][id] # NoRow
       PROVE  FromLog(listing[v][id], id)'
    <2>1. listing'[v][id] = listing[v][id]
        BY <1>11, EndedListing DEF Commit
    <2> DEFINE entry == listing[v][id]
    <2>2. PICK i \in DOMAIN log :
             /\ Touched(i, id) /\ log[i].by = entry.name
             /\ entry.read # "no" => \E j \in DOMAIN log :
                    i <= j /\ Touched(j, id) /\ ReadFrom(entry, id, j)
        BY <1>11, <2>1 DEF ListingInv, FromLog
    <2>3. Touched(i, id)' /\ log'[i].by = entry.name
        BY <1>4, <1>6, <2>2
    <2>4. entry.read # "no" => \E j \in DOMAIN log' :
             i <= j /\ Touched(j, id)' /\ ReadFrom(entry, id, j)'
        BY <1>4, <1>6, <2>1, <2>2 DEF ReadFrom
    <2> QED
        BY <1>4, <2>1, <2>3, <2>4 DEF FromLog
<1> QED
    BY <1>9, <1>10, <1>11 DEF ListingInv

(***************************************************************************)
(* Every other step keeps tables, log and listings, or drops a listing.    *)
(***************************************************************************)
LEMMA ListingStep == Inv /\ ListingInv /\ [Next]_vars => ListingInv'
<1> SUFFICES ASSUME Inv, ListingInv, [Next]_vars
             PROVE  ListingInv'
    OBVIOUS
<1> USE DEF Lasting, tables, history
<1>1. CASE UNCHANGED vars
    BY <1>1, NothingLogged DEF vars
<1>2. ASSUME NEW w \in Workers, Rollback(w)
      PROVE  ListingInv'
    BY <1>2, EndedListing, NothingLogged DEF Rollback
<1>3. ASSUME UNCHANGED <<rows, parts, log, listing>>
      PROVE  ListingInv'
    BY <1>3, NothingLogged
<1>4. ASSUME NEW w \in Workers, Receive(w)
      PROVE  ListingInv'
    BY <1>4, <1>3 DEF Receive
<1>5. ASSUME NEW w \in Workers, Refuse(w) \/ StatementFails(w) \/ CancelDeadlocked(w)
      PROVE  ListingInv'
    BY <1>5, <1>2 DEF Refuse, StatementFails, CancelDeadlocked
<1>6. ASSUME NEW w \in Workers, CommitFails(w)
      PROVE  ListingInv'
    BY <1>6, EndedListing, NothingLogged DEF CommitFails
<1>7. ASSUME NEW w \in Workers, Step(w)
      PROVE  ListingInv'
    <2>1. CASE InsertConfiguration(w)
        BY <2>1, <1>2, <1>3 DEF InsertConfiguration
    <2>2. CASE Check(w) \/ InsertParts(w) \/ Recheck(w)
        BY <2>2, <1>2, <1>3 DEF Check, InsertParts, Recheck
    <2>3. CASE UpdateConfiguration(w) \/ LookForParts(w) \/ DeleteParts(w)
        BY <2>3, <1>3 DEF UpdateConfiguration, LookForParts, DeleteParts
    <2>4. CASE LockUser(w) \/ RemoveRow(w)
        BY <2>4, <1>3 DEF LockUser, RemoveRow
    <2>5. CASE Commit(w)
        BY <2>5, CommitListed
    <2>6. CASE ListRows(w)
        BY <2>6, ListRowsListed
    <2>7. CASE ListParts(w)
        BY <2>7, ListPartsListed
    <2>8. CASE AnswerListing(w)
        BY <2>8, <1>2 DEF AnswerListing
    <2> QED
        BY <1>7, <2>1, <2>2, <2>3, <2>4, <2>5, <2>6, <2>7, <2>8 DEF Step
<1>8. ASSUME NEW w \in Workers, PartsCutShort(w) \/ RowsCutShort(w)
      PROVE  ListingInv'
    BY <1>8, ListPartsListed, RowsCutShortListed
<1> QED
    BY <1>1, <1>4, <1>5, <1>6, <1>7, <1>8 DEF Next

(***************************************************************************)
(* A listed configuration has a name that one request gave it.  Its        *)
(* components, once they were read, are of one request, this or a later    *)
(* one: all that it stored, or some of them when the connection broke      *)
(* meanwhile (GetUserConfigurations, which does not ask rows.Err()).       *)
(***************************************************************************)
THEOREM ListedFromOneSaveAlways == Spec => []ListedFromOneSave
<1>1. ASSUME ListingInv
      PROVE  ListedFromOneSave
    <2> SUFFICES ASSUME NEW w \in Workers, NEW id \in Ids,
                        listing[w][id] # NoRow, listing[w][id].read # "no"
                 PROVE  \E i, j \in DOMAIN log :
                            /\ i <= j
                            /\ log[i].by = listing[w][id].name /\ id \in log[i].on
                            /\ id \in log[j].on
                            /\ ReadFrom(listing[w][id], id, j)
        BY DEF ListedFromOneSave, ReadFrom, PutBy
    <2> QED
        BY <1>1 DEF ListingInv, FromLog, Touched
<1> QED
    BY <1>1, InvInvariant, ListingInit, ListingStep, PTL DEF Spec
=============================================================================
