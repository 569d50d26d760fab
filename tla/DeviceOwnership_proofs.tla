---------------------- MODULE DeviceOwnership_proofs ----------------------
(***************************************************************************)
(* Proofs about DeviceOwnership: types, and that a device has one owner    *)
(* unless requests raced, for every set of devices, users, organisations   *)
(* and dealers and every number of transactions.                           *)
(***************************************************************************)
EXTENDS DeviceOwnership, TLAPS

-----------------------------------------------------------------------------
(* Types.                                                                   *)

\* What a transaction works on is known when it gets there, and a row that it
\* has read is still there.
Knows(t) ==
    /\ t.pc # "idle" => t.id \in 1..MaxBegun
    /\ t.pc # "idle" /\ t.op \in {"bind", "unbind"} => t.dev \in Devices /\ t.user \in Users
    /\ t.pc \in {"bound", "count", "delete", "remain"} => t.op \in {"bind", "unbind"}
    /\ t.pc = "write" => t.dev \in Devices
    /\ t.pc = "write" /\ t.saw # NoRow => battery[t.dev] # NoRow

Types == TypeOK /\ \A x \in Txs : Knows(tx[x])

LEMMA NoTxType == NoTx \in Tx
  BY OwnershipAssumption DEF NoTx, Tx, Pcs, Ops

LEMMA NoTxKnows == Knows(NoTx)
  BY DEF NoTx, Knows

\* A statement keeps the types if what its transaction holds then is of type.
LEMMA DoesTypes ==
  ASSUME Types, NEW x \in Txs, NEW t \in Tx, Knows(t), Does(x, t)
  PROVE  Types'
<1>1. tx' \in [Txs -> Tx]
  BY DEF Does, Types, TypeOK
<1>2. \A y \in Txs : tx'[y] = IF y = x THEN t ELSE tx[y]
  BY DEF Does, Types, TypeOK
<1>3. UNCHANGED <<battery, bindings, begun, raced>>
  BY DEF Does
<1>4. \A y \in Txs : Knows(tx[y])'
  BY <1>2, <1>3 DEF Types, Knows
<1> QED
  BY <1>1, <1>3, <1>4 DEF Types, TypeOK

\* What a request brings.
Request(t) ==
    /\ t.op \in {"bind", "unbind"} => t.dev \in Devices /\ t.user \in Users
    /\ \/ t.pc = "bound" /\ t.op \in {"bind", "unbind"}
       \/ t.pc = "delete" /\ t.op = "unbind"
       \/ t.pc = "battery" /\ t.op \notin {"bind", "unbind"}
    /\ t.adds = {} /\ t.logged = {} /\ t.staged = NoTx.staged
    /\ t.op # "unbind" => t.gone = {}
    /\ \A b \in t.gone : b.device = t.dev
    /\ t.pc = "delete" => t.dev \in t.seen

LEMMA BeginsTypes ==
  ASSUME Types, NEW x \in Txs, NEW t \in Tx, Begins(x, t), Request(t)
  PROVE  Types'
<1> DEFINE new == [t EXCEPT !.id = begun + 1]
<1>1. begun + 1 \in 1..MaxBegun /\ begun' \in 0..MaxBegun
  BY OwnershipAssumption DEF Begins, Types, TypeOK
<1>2. new \in Tx
  BY <1>1 DEF Tx
<1>3. tx' = [tx EXCEPT ![x] = new] /\ UNCHANGED <<battery, bindings, raced>>
  BY DEF Begins
<1>4. Knows(new)
  BY <1>1 DEF Request, Knows, Tx
<1>5. \A y \in Txs : tx'[y] = IF y = x THEN new ELSE tx[y]
  BY <1>3 DEF Types, TypeOK
<1>6. \A y \in Txs : Knows(tx[y])'
  BY <1>3, <1>4, <1>5 DEF Types, Knows
<1>7. TypeOK'
  BY <1>1, <1>2, <1>3 DEF Types, TypeOK
<1> QED
  BY <1>6, <1>7 DEF Types

LEMMA InitTypes == Init => Types
<1> SUFFICES ASSUME Init PROVE Types
  OBVIOUS
<1>1. Factory \in Row
  BY DEF Factory, Row
<1>2. TypeOK
  BY <1>1, NoTxType, OwnershipAssumption DEF Init, TypeOK
<1>3. \A x \in Txs : Knows(tx[x])
  BY NoTxKnows DEF Init
<1> QED
  BY <1>2, <1>3 DEF Types

\* The requests that begin a transaction.
LEMMA RequestIsTx ==
  ASSUME Types, NEW x \in Txs, Bind(x) \/ Unbind(x) \/ ForceUnbind(x) \/ Batch(x)
  PROVE  \E n \in Tx : Begins(x, n) /\ Request(n)
<1>1. CASE Bind(x)
  <2>1. PICK u \in Users, d \in Devices :
            Begins(x, [NoTx EXCEPT !.pc = "bound", !.op = "bind", !.user = u, !.dev = d])
    BY <1>1 DEF Bind
  <2> DEFINE t == [NoTx EXCEPT !.pc = "bound", !.op = "bind", !.user = u, !.dev = d]
  <2>2. t \in Tx /\ t.pc = "bound" /\ t.op = "bind" /\ t.dev = d /\ t.user = u /\ t.adds = {}
        /\ t.gone = {} /\ t.logged = {} /\ t.staged = NoTx.staged
    BY NoTxType DEF Tx, Pcs, Ops, NoTx
  <2> HIDE DEF t
  <2> QED BY <2>1, <2>2 DEF t, Request
<1>2. CASE Unbind(x)
  <2>1. PICK u \in Users, d \in Devices :
            Begins(x, [NoTx EXCEPT !.pc = "bound", !.op = "unbind", !.user = u, !.dev = d])
    BY <1>2 DEF Unbind
  <2> DEFINE t == [NoTx EXCEPT !.pc = "bound", !.op = "unbind", !.user = u, !.dev = d]
  <2>2. t \in Tx /\ t.pc = "bound" /\ t.op = "unbind" /\ t.dev = d /\ t.user = u /\ t.adds = {}
        /\ t.gone = {} /\ t.logged = {} /\ t.staged = NoTx.staged
    BY NoTxType DEF Tx, Pcs, Ops, NoTx
  <2> HIDE DEF t
  <2> QED BY <2>1, <2>2 DEF t, Request
<1>3. CASE ForceUnbind(x)
  <2>1. PICK b \in bindings :
            Begins(x, [NoTx EXCEPT !.pc = "delete", !.op = "unbind", !.user = b.user,
                                   !.dev = b.device, !.gone = {b}, !.seen = {b.device}])
    BY <1>3 DEF ForceUnbind
  <2> DEFINE t == [NoTx EXCEPT !.pc = "delete", !.op = "unbind", !.user = b.user,
                               !.dev = b.device, !.gone = {b}, !.seen = {b.device}]
  <2>2. b \in Binding /\ b.device \in Devices /\ b.user \in Users
    BY DEF Types, TypeOK, Binding
  <2>3. t \in Tx /\ t.pc = "delete" /\ t.op = "unbind" /\ t.dev = b.device
        /\ t.user = b.user /\ t.adds = {} /\ t.gone = {b} /\ t.seen = {b.device}
        /\ t.logged = {} /\ t.staged = NoTx.staged
    BY <2>2, NoTxType DEF Tx, Pcs, Ops, NoTx
  <2> HIDE DEF t
  <2> QED BY <2>1, <2>2, <2>3 DEF t, Request
<1>4. CASE Batch(x)
  <2>1. PICK op \in Batches, to \in Dealers \cup {None}, scope \in Dealers \cup {None},
             devices \in SUBSET Devices :
            Begins(x, [NoTx EXCEPT !.pc = "battery", !.op = op, !.to = to, !.scope = scope,
                                   !.todo = devices])
    BY <1>4 DEF Batch
  <2> DEFINE t == [NoTx EXCEPT !.pc = "battery", !.op = op, !.to = to, !.scope = scope,
                               !.todo = devices]
  <2>2. t \in Tx
    BY NoTxType DEF Tx, Pcs, Ops
  <2>3. t.pc = "battery" /\ t.op = op /\ op \notin {"bind", "unbind"}
    BY DEF NoTx, Batches
  <2>4. t.adds = {} /\ t.gone = {} /\ t.logged = {} /\ t.staged = NoTx.staged
    BY DEF NoTx
  <2> HIDE DEF t
  <2> QED BY <2>1, <2>2, <2>3, <2>4 DEF t, Request
<1> QED
  BY <1>1, <1>2, <1>3, <1>4

LEMMA RequestTypes ==
  ASSUME Types, NEW x \in Txs, Bind(x) \/ Unbind(x) \/ ForceUnbind(x) \/ Batch(x)
  PROVE  Types'
  BY RequestIsTx, BeginsTypes

\* The statements of a bind and of an unbind.
LEMMA BindTypes ==
  ASSUME Types, NEW x \in Txs, BindStep(x) \/ UnbindStep(x)
  PROVE  Types'
<1> DEFINE t == tx[x]
<1>1. t \in Tx /\ Knows(t)
  BY DEF Types, TypeOK
<1>2. CASE NotYetBound(x)
  <2>1. [t EXCEPT !.pc = "count", !.seen = {t.dev}] \in Tx
    BY <1>1, <1>2 DEF NotYetBound, Tx, Pcs, Knows
  <2>2. Knows([t EXCEPT !.pc = "count", !.seen = {t.dev}])
    BY <1>1, <1>2 DEF NotYetBound, Tx, Knows
  <2> QED BY <1>2, <2>1, <2>2, DoesTypes DEF NotYetBound
<1>3. CASE CountsBindings(x)
  <2> DEFINE alone == BindingsOf(t.dev) = {}
             new == [t EXCEPT !.pc = "battery", !.first = alone]
  <2>1. alone \in BOOLEAN
    BY Zenon
  <2> HIDE DEF alone
  <2>2. new \in Tx
    BY <1>1, <2>1 DEF Tx, Pcs
  <2>3. Knows(new)
    BY <1>1, <1>3, <2>1 DEF CountsBindings, Tx, Knows
  <2> QED BY <1>3, <2>2, <2>3, DoesTypes DEF CountsBindings, alone
<1>4. CASE BindReads(x) \/ UnbindReads(x)
  <2>1. t.dev \in Devices /\ battery[t.dev] \in Row \cup {NoRow}
    BY <1>1, <1>4 DEF BindReads, UnbindReads, Knows, Types, TypeOK
  <2>2. PICK l \in {"write", "commit"} :
            /\ Does(x, [t EXCEPT !.pc = l, !.saw = battery[t.dev]])
    BY <1>4 DEF BindReads, UnbindReads
  <2>3. [t EXCEPT !.pc = l, !.saw = battery[t.dev]] \in Tx
    BY <1>1, <2>1 DEF Tx, Pcs
  <2>4. Knows([t EXCEPT !.pc = l, !.saw = battery[t.dev]])
    BY <1>1, <1>4, <2>1 DEF BindReads, UnbindReads, Tx, Knows
  <2> QED BY <2>2, <2>3, <2>4, DoesTypes
<1>5. CASE FindsBinding(x)
  <2>1. PICK b \in BindingsOf(t.dev) :
            Does(x, [t EXCEPT !.pc = "delete", !.gone = {b}, !.seen = {t.dev}])
    BY <1>5 DEF FindsBinding
  <2>2. b \in Binding /\ t.dev \in Devices
    BY <1>1, <1>5 DEF BindingsOf, FindsBinding, Knows, Types, TypeOK
  <2>3. [t EXCEPT !.pc = "delete", !.gone = {b}, !.seen = {t.dev}] \in Tx
    BY <1>1, <2>2 DEF Tx, Pcs
  <2>4. Knows([t EXCEPT !.pc = "delete", !.gone = {b}, !.seen = {t.dev}])
    BY <1>1, <1>5 DEF FindsBinding, Tx, Knows
  <2> QED BY <2>1, <2>3, <2>4, DoesTypes
<1>6. CASE DeletesBinding(x)
  <2>1. [t EXCEPT !.pc = "remain", !.gone = t.gone \cap bindings] \in Tx
    BY <1>1 DEF Tx, Pcs
  <2>2. Knows([t EXCEPT !.pc = "remain", !.gone = t.gone \cap bindings])
    BY <1>1, <1>6 DEF DeletesBinding, Tx, Knows
  <2> QED BY <1>6, <2>1, <2>2, DoesTypes DEF DeletesBinding
<1>7. CASE CountsRemaining(x)
  <2>1. PICK l \in {"battery", "commit"} : Does(x, [t EXCEPT !.pc = l])
    BY <1>7 DEF CountsRemaining
  <2>2. [t EXCEPT !.pc = l] \in Tx
    BY <1>1 DEF Tx, Pcs
  <2>3. Knows([t EXCEPT !.pc = l])
    BY <1>1, <1>7 DEF CountsRemaining, Tx, Knows
  <2> QED BY <2>1, <2>2, <2>3, DoesTypes
<1> QED
  BY <1>2, <1>3, <1>4, <1>5, <1>6, <1>7 DEF BindStep, UnbindStep

\* The statements of a batch, and the end of a transaction that gives up.
LEMMA BatchTypes ==
  ASSUME Types, NEW x \in Txs, BatchStep(x) \/ RollsBack(x)
  PROVE  Types'
<1> DEFINE t == tx[x]
<1>1. t \in Tx /\ Knows(t)
  BY DEF Types, TypeOK
<1>2. CASE BatchReads(x)
  <2>1. PICK d \in t.todo :
            Does(x, [t EXCEPT !.pc = "write", !.dev = d, !.todo = @ \ {d},
                              !.saw = battery[d], !.seen = @ \cup {d}])
    BY <1>2 DEF BatchReads
  <2> DEFINE new == [t EXCEPT !.pc = "write", !.dev = d, !.todo = @ \ {d},
                              !.saw = battery[d], !.seen = @ \cup {d}]
  <2>2. d \in Devices /\ battery[d] \in Row \cup {NoRow}
    BY <1>1 DEF Tx, Types, TypeOK
  <2>3. new \in Tx
    BY <1>1, <2>2 DEF Tx, Pcs
  <2>4. Knows(new)
    BY <1>1, <1>2, <2>2 DEF BatchReads, Batches, Tx, Knows
  <2> QED BY <2>1, <2>3, <2>4, DoesTypes
<1>3. CASE BatchEnds(x)
  <2>1. [t EXCEPT !.pc = "commit"] \in Tx
    BY <1>1 DEF Tx, Pcs
  <2>2. Knows([t EXCEPT !.pc = "commit"])
    BY <1>1, <1>3 DEF BatchEnds, Batches, Tx, Knows
  <2> QED BY <1>3, <2>1, <2>2, DoesTypes DEF BatchEnds
<1>4. CASE RollsBack(x)
  BY <1>4, NoTxType, NoTxKnows, DoesTypes DEF RollsBack
<1> QED
  BY <1>2, <1>3, <1>4 DEF BatchStep

\* Whatever is written to a row is a row.
LEMMA WrittenIsRow ==
  ASSUME NEW t \in Tx, NEW row \in Row,
         t.op \in {"bind", "unbind"} => t.user \in Users
  PROVE  Updated(t, row) \in Row
<1>1. CASE t.op = "bind"
  <2>1. UserOrg[t.user] \in Orgs \cup {None}
    BY <1>1, OwnershipAssumption
  <2> QED BY <1>1, <2>1 DEF Updated, Bound, Row
<1>2. CASE t.op = "unbind"
  BY <1>2 DEF Updated, Unbound, Row
<1>3. CASE t.op \in Batches
  <2>1. t.to \in Dealers \cup {None}
    BY DEF Tx
  <2>2. t.op \notin {"bind", "unbind"}
    BY <1>3 DEF Batches
  <2>3. Updated(t, row) = Handed(t, row)
    BY <2>2 DEF Updated
  <2>4. Handed(t, row) \in Row
    BY <1>3, <2>1 DEF Handed, Batches, Row
  <2> QED BY <2>3, <2>4
<1> QED
  BY <1>1, <1>2, <1>3 DEF Tx, Ops

\* What a transaction writes to the row it is at.
Written(t) == IF t.saw = NoRow THEN Created(t) ELSE Updated(t, battery[t.dev])

LEMMA WriteIsTx ==
  ASSUME Types, NEW x \in Txs, WritesBattery(x)
  PROVE  \E n \in Tx :
            /\ Does(x, n) /\ Knows(n)
            /\ n.adds = NewBinding(tx[x]) /\ n.pc = AfterWrite(tx[x])
            /\ n.id = tx[x].id /\ n.op = tx[x].op /\ n.user = tx[x].user
            /\ n.dev = tx[x].dev /\ n.first = tx[x].first
            /\ n.seen = tx[x].seen /\ n.dirty = tx[x].dirty /\ n.gone = tx[x].gone
            /\ n.logged = tx[x].logged \cup Logs(tx[x])
            /\ n.staged = [tx[x].staged EXCEPT ![tx[x].dev] = Written(tx[x])]
<1> DEFINE t == tx[x]
           row == Written(t)
           new == [t EXCEPT !.staged[t.dev] = row, !.adds = NewBinding(t),
                            !.logged = @ \cup Logs(t), !.pc = AfterWrite(t)]
<1>1. t \in Tx /\ Knows(t) /\ t.pc = "write" /\ t.dev \in Devices
  BY DEF Types, TypeOK, WritesBattery, Knows
<1>2. t.op \in {"bind", "unbind"} => t.user \in Users
  BY <1>1 DEF Knows
<1>3. row \in Row
  <2>1. CASE t.saw = NoRow
    <3>1. Factory \in Row
      BY DEF Factory, Row
    <3>2. [Factory EXCEPT !.dealer = t.to] \in Row
      BY <1>1, <3>1 DEF Row, Tx
    <3> QED BY <1>1, <1>2, <2>1, <3>1, <3>2, WrittenIsRow DEF Created, Written
  <2>2. CASE t.saw # NoRow
    <3>1. battery[t.dev] \in Row
      BY <1>1, <2>2 DEF Knows, Types, TypeOK
    <3> QED BY <1>1, <1>2, <2>2, <3>1, WrittenIsRow DEF Written
  <2> QED BY <2>1, <2>2
<1>4. NewBinding(t) \subseteq Binding
  <2>1. t.op = "bind" => t.id \in 1..MaxBegun /\ t.user \in Users /\ t.first \in BOOLEAN
    BY <1>1 DEF Knows, Tx
  <2> QED BY <1>1, <2>1 DEF NewBinding, Binding
<1>5. Logs(t) \subseteq Devices \X (Dealers \cup {None})
  <2>1. t.saw # NoRow => t.saw.dealer \in Dealers \cup {None}
    BY <1>1 DEF Tx, Row
  <2> QED BY <1>1, <2>1 DEF Logs
<1>6. AfterWrite(t) \in {"commit", "battery"}
  BY DEF AfterWrite
<1> HIDE DEF row
<1>7. [t.staged EXCEPT ![t.dev] = row] \in [Devices -> Row \cup {NoRow}]
  BY <1>1, <1>3 DEF Tx
<1>8. new \in Tx
  BY <1>1, <1>4, <1>5, <1>6, <1>7 DEF Tx, Pcs
<1>9. Knows(new)
  BY <1>1, <1>6 DEF Tx, Knows
<1>10. Does(x, new)
  BY DEF WritesBattery, row, Written
<1>11. /\ new.adds = NewBinding(t) /\ new.pc = AfterWrite(t) /\ new.id = t.id
       /\ new.op = t.op /\ new.user = t.user /\ new.dev = t.dev
       /\ new.first = t.first /\ new.seen = t.seen /\ new.dirty = t.dirty
       /\ new.gone = t.gone /\ new.logged = t.logged \cup Logs(t)
       /\ new.staged = [t.staged EXCEPT ![t.dev] = row]
  BY <1>1 DEF Tx
<1> QED
  BY <1>8, <1>9, <1>10, <1>11 DEF row

LEMMA WriteTypes ==
  ASSUME Types, NEW x \in Txs, WritesBattery(x)
  PROVE  Types'
  BY WriteIsTx, DoesTypes

\* A commit never removes a row.
LEMMA CommitTypes ==
  ASSUME Types, NEW x \in Txs, Commits(x)
  PROVE  Types'
<1> DEFINE t == tx[x]
<1>1. t \in Tx
  BY DEF Types, TypeOK
<1>2. \A d \in Devices : /\ battery'[d] \in Row \cup {NoRow}
                         /\ battery[d] # NoRow => battery'[d] # NoRow
  BY <1>1 DEF Commits, Tx, Types, TypeOK
<1>3. battery' \in [Devices -> Row \cup {NoRow}]
  BY <1>2 DEF Commits
<1>4. bindings' \subseteq Binding /\ raced' \subseteq Devices /\ begun' = begun
  <2>1. Touched(t) \subseteq Devices
    BY <1>1 DEF Touched, Tx, Binding
  <2> QED BY <1>1, <2>1 DEF Commits, Tx, Types, TypeOK
<1>5. \A y \in Txs : /\ tx'[y] \in Tx
                     /\ Knows(tx[y])'
  <2> TAKE y \in Txs
  <2>1. CASE y = x
    <3>1. tx'[y] = NoTx
      BY <2>1 DEF Commits
    <3> QED BY <3>1, NoTxType DEF NoTx, Knows
  <2>2. CASE y # x
    <3> DEFINE b == tx[y].dirty \/ tx[y].seen \cap Touched(t) # {}
    <3>1. tx'[y] = [tx[y] EXCEPT !.dirty = b]
      BY <2>2 DEF Commits
    <3>2. b \in BOOLEAN
      BY Zenon
    <3>3. tx[y] \in Tx /\ Knows(tx[y])
      BY DEF Types, TypeOK
    <3> HIDE DEF b
    <3>4. tx'[y] \in Tx
      BY <3>1, <3>2, <3>3 DEF Tx
    <3>5. \A f \in {"pc", "id", "op", "user", "dev", "saw"} : tx'[y][f] = tx[y][f]
      BY <3>1, <3>3 DEF Tx
    <3>6. Knows(tx[y])'
      BY <1>2, <3>1, <3>3, <3>5 DEF Knows, Tx
    <3> QED BY <3>4, <3>6
  <2> QED BY <2>1, <2>2
<1>6. tx' \in [Txs -> Tx]
  BY <1>5 DEF Commits
<1> QED
  BY <1>3, <1>4, <1>5, <1>6 DEF Types, TypeOK

LEMMA StepTypes == Types /\ [Next]_vars => Types'
<1>1. ASSUME Types, UNCHANGED vars PROVE Types'
  BY <1>1 DEF vars, Types, TypeOK, Knows
<1> QED
  BY <1>1, RequestTypes, BindTypes, BatchTypes, WriteTypes, CommitTypes DEF Next

\* Every variable keeps its type.
THEOREM TypeInvariant == Spec => []TypeOK
<1>1. Types => TypeOK
  BY DEF Types
<1> QED
  BY <1>1, InitTypes, StepTypes, PTL DEF Spec

-----------------------------------------------------------------------------
(* One owner.                                                               *)

Looked == {"count", "battery", "write", "commit"}

\* As long as no commit touched a device that a bind has looked at, what the
\* bind saw of its bindings is still so.
Informed(t) ==
    /\ t.adds \subseteq NewBinding(t)
    /\ t.pc # "commit" => t.adds = {}
    /\ t.pc \in {"delete", "remain"} => t.op = "unbind"
    /\ t.op = "bind" /\ t.pc \in Looked /\ ~t.dirty =>
           /\ t.dev \in t.seen
           /\ \A b \in BindingsOf(t.dev) : b.user # t.user
    /\ t.op = "bind" /\ t.pc \in Looked \ {"count"} /\ ~t.dirty /\ t.first =>
           BindingsOf(t.dev) = {}

Owned == OneOwner /\ \A x \in Txs : Informed(tx[x])

LEMMA NoTxInformed == Informed(NoTx)
  BY DEF NoTx, Informed, Looked

LEMMA InitOwned == Init => Owned
<1> SUFFICES ASSUME Init PROVE Owned
  OBVIOUS
<1>1. OneOwner
  BY DEF Init, OneOwner, BindingsOf
<1>2. \A x \in Txs : tx[x] = NoTx
  BY DEF Init
<1> QED
  BY <1>1, <1>2, NoTxInformed DEF Owned

\* A statement changes no binding.
LEMMA DoesOwned ==
  ASSUME Types, Owned, NEW x \in Txs, NEW t, Does(x, t), Informed(t)
  PROVE  Owned'
<1>1. \A y \in Txs : tx'[y] = IF y = x THEN t ELSE tx[y]
  BY DEF Does, Types, TypeOK
<1>2. UNCHANGED <<bindings, raced>>
  BY DEF Does
<1>3. OneOwner'
  BY <1>2 DEF Owned, OneOwner, BindingsOf
<1>4. \A y \in Txs : Informed(tx'[y])
  BY <1>1 DEF Owned
<1>5. \A y \in Txs : Informed(tx[y])'
  BY <1>2, <1>4 DEF Informed, BindingsOf
<1> QED
  BY <1>3, <1>5 DEF Owned

\* A request holds nothing yet.
LEMMA RequestOwned ==
  ASSUME Types, Owned, NEW x \in Txs,
         Bind(x) \/ Unbind(x) \/ ForceUnbind(x) \/ Batch(x)
  PROVE  Owned'
<1>1. PICK t \in Tx : Begins(x, t) /\ Request(t)
  BY RequestIsTx
<1> DEFINE new == [t EXCEPT !.id = begun + 1]
<1>2. Informed(new)
  <2>1. new.adds = {} /\ new.pc = t.pc /\ new.op = t.op
    BY <1>1 DEF Tx, Request
  <2> HIDE DEF new
  <2> QED BY <1>1, <2>1 DEF Informed, Request, Looked
<1>3. \A y \in Txs : tx'[y] = IF y = x THEN new ELSE tx[y]
  BY <1>1 DEF Begins, Types, TypeOK
<1>4. UNCHANGED <<bindings, raced>>
  BY <1>1 DEF Begins
<1>5. OneOwner'
  BY <1>4 DEF Owned, OneOwner, BindingsOf
<1> HIDE DEF new
<1>6. \A y \in Txs : Informed(tx'[y])
  BY <1>2, <1>3 DEF Owned
<1>7. \A y \in Txs : Informed(tx[y])'
  BY <1>4, <1>6 DEF Informed, BindingsOf
<1> QED
  BY <1>5, <1>7 DEF Owned

\* The statements of a bind: the first looks for the user, the second for anyone.
LEMMA BindOwned ==
  ASSUME Types, Owned, NEW x \in Txs, BindStep(x)
  PROVE  Owned'
<1> DEFINE t == tx[x]
<1>1. t \in Tx /\ Informed(t)
  BY DEF Types, TypeOK, Owned
<1>2. CASE NotYetBound(x)
  <2>1. Informed([t EXCEPT !.pc = "count", !.seen = {t.dev}])
    BY <1>1, <1>2 DEF NotYetBound, Informed, NewBinding, Looked, Tx
  <2> QED BY <1>2, <2>1, DoesOwned DEF NotYetBound
<1>3. CASE CountsBindings(x)
  <2> DEFINE alone == BindingsOf(t.dev) = {}
             new == [t EXCEPT !.pc = "battery", !.first = alone]
  <2>1. alone \in BOOLEAN /\ (alone => BindingsOf(t.dev) = {})
    BY Zenon
  <2> HIDE DEF alone
  <2>2. Informed(new)
    BY <1>1, <1>3, <2>1 DEF CountsBindings, Informed, NewBinding, Looked, Tx
  <2> QED BY <1>3, <2>2, DoesOwned DEF CountsBindings, alone
<1>4. CASE BindReads(x)
  <2>1. Informed([t EXCEPT !.pc = "write", !.saw = battery[t.dev]])
    BY <1>1, <1>4 DEF BindReads, Informed, NewBinding, Looked, Tx
  <2> QED BY <1>4, <2>1, DoesOwned DEF BindReads
<1> QED
  BY <1>2, <1>3, <1>4 DEF BindStep

\* The statements of an unbind and of a batch add no binding.
LEMMA OthersOwned ==
  ASSUME Types, Owned, NEW x \in Txs, UnbindStep(x) \/ BatchStep(x) \/ RollsBack(x)
  PROVE  Owned'
<1> DEFINE t == tx[x]
<1>1. t \in Tx /\ Informed(t)
  BY DEF Types, TypeOK, Owned
<1>2. CASE RollsBack(x)
  BY <1>2, NoTxInformed, DoesOwned DEF RollsBack
<1>3. CASE UnbindStep(x) \/ BatchStep(x)
  <2>1. t.op # "bind"
    BY <1>1, <1>3 DEF Informed, UnbindStep, FindsBinding, DeletesBinding, CountsRemaining,
           UnbindReads, BatchStep, BatchReads, BatchEnds, Batches
  <2> DEFINE Kept(n) == /\ n.op = t.op /\ n.adds = t.adds
                        /\ n.pc \in {"delete", "remain"} => t.op = "unbind"
  <2>2. PICK new : Does(x, new) /\ Kept(new)
    <3>1. CASE FindsBinding(x)
      <4>1. PICK b : Does(x, [t EXCEPT !.pc = "delete", !.gone = {b}, !.seen = {t.dev}])
        BY <3>1 DEF FindsBinding
      <4>2. Kept([t EXCEPT !.pc = "delete", !.gone = {b}, !.seen = {t.dev}])
        BY <1>1, <3>1 DEF FindsBinding, Tx
      <4> QED BY <4>1, <4>2
    <3>2. CASE DeletesBinding(x)
      <4>1. Kept([t EXCEPT !.pc = "remain", !.gone = t.gone \cap bindings])
        BY <1>1, <3>2 DEF DeletesBinding, Informed, Tx
      <4> QED BY <3>2, <4>1 DEF DeletesBinding
    <3>3. CASE CountsRemaining(x)
      <4>1. PICK l \in {"battery", "commit"} : Does(x, [t EXCEPT !.pc = l])
        BY <3>3 DEF CountsRemaining
      <4>2. Kept([t EXCEPT !.pc = l])
        BY <1>1 DEF Tx
      <4> QED BY <4>1, <4>2
    <3>4. CASE UnbindReads(x)
      <4>1. PICK l \in {"write", "commit"} : Does(x, [t EXCEPT !.pc = l, !.saw = battery[t.dev]])
        BY <3>4 DEF UnbindReads
      <4>2. Kept([t EXCEPT !.pc = l, !.saw = battery[t.dev]])
        BY <1>1 DEF Tx
      <4> QED BY <4>1, <4>2
    <3>5. CASE BatchReads(x)
      <4>1. PICK d : Does(x, [t EXCEPT !.pc = "write", !.dev = d, !.todo = @ \ {d},
                                       !.saw = battery[d], !.seen = @ \cup {d}])
        BY <3>5 DEF BatchReads
      <4>2. Kept([t EXCEPT !.pc = "write", !.dev = d, !.todo = @ \ {d},
                           !.saw = battery[d], !.seen = @ \cup {d}])
        BY <1>1 DEF Tx
      <4> QED BY <4>1, <4>2
    <3>6. CASE BatchEnds(x)
      <4>1. Kept([t EXCEPT !.pc = "commit"])
        BY <1>1 DEF Tx
      <4> QED BY <3>6, <4>1 DEF BatchEnds
    <3> QED BY <1>3, <3>1, <3>2, <3>3, <3>4, <3>5, <3>6 DEF UnbindStep, BatchStep
  <2>3. Informed(new)
    BY <1>1, <2>1, <2>2 DEF Informed, NewBinding
  <2> QED BY <2>2, <2>3, DoesOwned
<1> QED
  BY <1>2, <1>3

\* The write of a bind adds the binding that its two looks allow.
LEMMA WriteOwned ==
  ASSUME Types, Owned, NEW x \in Txs, WritesBattery(x)
  PROVE  Owned'
<1> DEFINE t == tx[x]
<1>1. t \in Tx /\ Informed(t) /\ t.pc = "write"
  BY DEF Types, TypeOK, Owned, WritesBattery
<1>2. PICK new \in Tx :
          /\ Does(x, new)
          /\ new.adds = NewBinding(t) /\ new.pc = AfterWrite(t)
          /\ new.id = t.id /\ new.op = t.op /\ new.user = t.user /\ new.dev = t.dev
          /\ new.first = t.first /\ new.seen = t.seen /\ new.dirty = t.dirty
  BY <1>1, WriteIsTx
<1>3. Informed(new)
  BY <1>1, <1>2 DEF Informed, NewBinding, Looked, AfterWrite
<1> QED
  BY <1>2, <1>3, DoesOwned

\* What a clean bind adds is alone, or one more of another user; and who stays
\* clean has looked at no device that the commit touches.
LEMMA CommitOwned ==
  ASSUME Types, Owned, NEW x \in Txs, Commits(x)
  PROVE  Owned'
<1> DEFINE t == tx[x]
<1>1. /\ t \in Tx /\ Informed(t) /\ t.pc = "commit"
      /\ bindings' = (bindings \ t.gone) \cup t.adds
      /\ raced' = IF t.dirty THEN raced \cup Touched(t) ELSE raced
  BY DEF Types, TypeOK, Owned, Commits
<1>2. \A b \in t.adds : /\ b.device \in Devices /\ b.device \in Touched(t)
                       /\ t.op = "bind" /\ b.device = t.dev /\ b.user = t.user
                       /\ b.owner = t.first
                       /\ t.adds = {b}
  BY <1>1 DEF Informed, NewBinding, Touched, Tx, Binding
<1>3. OneOwner'
  <2> SUFFICES ASSUME NEW d \in Devices, d \notin raced',
                      NEW b \in bindings', NEW c \in bindings',
                      b.device = d, c.device = d, b # c
               PROVE  ~(b.owner /\ c.owner) /\ b.user # c.user
    BY DEF OneOwner, BindingsOf
  <2>1. ASSUME NEW n \in t.adds, NEW o \in bindings, n.device = d, o.device = d
        PROVE  ~n.owner /\ n.user # o.user
    <3>1. ~t.dirty
      BY <1>1, <1>2, <2>1
    <3> QED BY <1>1, <1>2, <2>1, <3>1 DEF Informed, Looked, BindingsOf
  <2>2. CASE b \in bindings /\ c \in bindings
    BY <1>1, <2>2 DEF Owned, OneOwner, BindingsOf
  <2>3. CASE b \in t.adds /\ c \in t.adds
    BY <1>2, <2>3
  <2>4. CASE b \in t.adds /\ c \in bindings
    BY <2>1, <2>4
  <2>5. CASE b \in bindings /\ c \in t.adds
    BY <2>1, <2>5
  <2> QED BY <1>1, <2>2, <2>3, <2>4, <2>5
<1>4. ASSUME NEW y \in Txs, y # x
      PROVE  Informed(tx[y])'
  <2> DEFINE o == tx[y]
             b == o.dirty \/ o.seen \cap Touched(t) # {}
  <2>1. o \in Tx /\ Informed(o) /\ tx'[y] = [o EXCEPT !.dirty = b]
    BY <1>4 DEF Types, TypeOK, Owned, Commits
  <2>2. b \in BOOLEAN /\ (~b => ~o.dirty /\ o.seen \cap Touched(t) = {})
    BY Zenon
  <2> HIDE DEF b
  <2>3. \A d \in o.seen : ~b => \A c \in bindings' : c.device = d => c \in bindings
    BY <1>1, <1>2, <2>2
  <2>4. /\ \A f \in {"pc", "op", "id", "user", "dev", "first", "seen", "adds"} :
                tx'[y][f] = o[f]
        /\ tx'[y].dirty = b
    BY <2>1 DEF Tx
  <2>5. NewBinding(tx'[y]) = NewBinding(o)
    BY <2>4 DEF NewBinding
  <2> HIDE DEF o
  <2> QED BY <2>1, <2>2, <2>3, <2>4, <2>5 DEF Informed, BindingsOf, Tx
<1>5. Informed(tx[x])'
  <2>1. tx'[x] = NoTx
    BY DEF Commits
  <2> QED BY <2>1 DEF NoTx, Informed, Looked
<1> QED
  BY <1>3, <1>4, <1>5 DEF Owned

LEMMA StepOwned == Types /\ Owned /\ [Next]_vars => Owned'
<1>1. ASSUME Owned, UNCHANGED vars PROVE Owned'
  BY <1>1 DEF vars, Owned, OneOwner, Informed, BindingsOf, NewBinding
<1> QED
  BY <1>1, RequestOwned, BindOwned, OthersOwned, WriteOwned, CommitOwned DEF Next

\* A device that no requests raced for has one owner at most, and no user is
\* bound to it twice, however many transactions run and however long.
THEOREM OneOwnerUnlessRaced == Spec => []OneOwner
<1>1. Owned => OneOwner
  BY DEF Owned
<1> QED
  BY <1>1, InitTypes, StepTypes, InitOwned, StepOwned, PTL DEF Spec

-----------------------------------------------------------------------------
(* What a transaction will have done when it commits.                       *)

\* What t has staged for d keeps the organisation that owns the device; a bind
\* activates it, an unbind resets it, and a batch leaves the activation alone.
Fits(t, d) ==
    /\ battery[d] # NoRow /\ battery[d].org # None => t.staged[d].org = battery[d].org
    /\ t.op = "bind" => t.staged[d].act = "ACTIVE"
    /\ t.op = "unbind" => t.staged[d].act = "INACTIVE" /\ t.staged[d].status # "USER"
    /\ t.op \in Batches =>
           /\ t.staged[d].act = IF battery[d] = NoRow THEN "INACTIVE" ELSE battery[d].act
           /\ t.staged[d].status = "USER" => battery[d] # NoRow /\ battery[d].status = "USER"

\* What a transaction has read, logged and staged agrees with what is committed.
Current(t) ==
    /\ t.pc = "write" => t.saw = battery[t.dev]
    /\ \A e \in t.logged : battery[e[1]].dealer = e[2]
    /\ \A d \in Devices : t.staged[d] # NoRow => Fits(t, d)
    /\ t.op = "unbind" /\ t.pc \in {"battery", "write"} => BindingsOf(t.dev) \subseteq t.gone
    /\ t.op = "unbind" /\ t.pc = "commit" =>
           IF t.staged[t.dev] = NoRow
           THEN BindingsOf(t.dev) \subseteq t.gone => battery[t.dev] = NoRow
           ELSE BindingsOf(t.dev) \subseteq t.gone

\* A transaction has looked at every device it writes or deletes a binding of, and
\* the app's two operations write one device, in their last statement.
Looks(t) ==
    /\ t.pc = "count" => t.op = "bind"
    /\ t.op # "unbind" => t.gone = {}
    /\ \A b \in t.gone : b.device = t.dev
    /\ t.op \in {"bind", "unbind"} /\ t.pc \notin {"idle", "bound"} => t.dev \in t.seen
    /\ t.pc = "write" => t.dev \in t.seen
    /\ \A d \in Devices : t.staged[d] # NoRow => d \in t.seen
    /\ \A d \in Devices : t.op \in {"bind", "unbind"} /\ t.staged[d] # NoRow
                              => d = t.dev /\ t.pc = "commit"
    /\ t.op = "bind" /\ t.pc = "commit" => t.staged[t.dev] # NoRow /\ t.adds = NewBinding(t)
    /\ \A e \in t.logged : t.staged[e[1]] # NoRow

\* A transaction stays current as long as no commit touches what it has looked at.
Foresees(t) == Looks(t) /\ (~t.dirty => Current(t))

Foreseen == \A x \in Txs : Foresees(tx[x])

LEMMA NoTxForesees == Foresees(NoTx)
  BY DEF NoTx, Foresees, Looks, Current

LEMMA InitForeseen == Init => Foreseen
  BY NoTxForesees DEF Init, Foreseen

\* A statement commits nothing.
LEMMA DoesForeseen ==
  ASSUME Types, Foreseen, NEW x \in Txs, NEW t, Does(x, t), Foresees(t)
  PROVE  Foreseen'
<1>1. \A y \in Txs : tx'[y] = IF y = x THEN t ELSE tx[y]
  BY DEF Does, Types, TypeOK
<1>2. UNCHANGED <<battery, bindings>>
  BY DEF Does
<1>3. \A y \in Txs : Foresees(tx'[y])
  BY <1>1 DEF Foreseen
<1>4. \A y \in Txs : Foresees(tx[y])'
  BY <1>2, <1>3 DEF Foresees, Looks, Current, Fits, BindingsOf, NewBinding
<1> QED
  BY <1>4 DEF Foreseen

\* A request has staged nothing yet.
LEMMA RequestForeseen ==
  ASSUME Types, Foreseen, NEW x \in Txs,
         Bind(x) \/ Unbind(x) \/ ForceUnbind(x) \/ Batch(x)
  PROVE  Foreseen'
<1>1. PICK t \in Tx : Begins(x, t) /\ Request(t)
  BY RequestIsTx
<1> DEFINE new == [t EXCEPT !.id = begun + 1]
<1>2. /\ new.pc = t.pc /\ new.op = t.op /\ new.dev = t.dev /\ new.gone = t.gone
      /\ new.staged = t.staged /\ new.logged = t.logged /\ new.seen = t.seen
  BY <1>1 DEF Tx
<1>3. \A d \in Devices : t.staged[d] = NoRow
  BY <1>1 DEF Request, NoTx
<1>4. \A y \in Txs : tx'[y] = IF y = x THEN new ELSE tx[y]
  BY <1>1 DEF Begins, Types, TypeOK
<1>5. UNCHANGED <<battery, bindings>>
  BY <1>1 DEF Begins
<1> HIDE DEF new
<1>6. Looks(new)
  BY <1>1, <1>2, <1>3 DEF Looks, Request
<1>7. Current(new)
  BY <1>1, <1>2, <1>3 DEF Current, Request
<1>8. \A y \in Txs : Foresees(tx'[y])
  BY <1>4, <1>6, <1>7 DEF Foreseen, Foresees
<1>9. \A y \in Txs : Foresees(tx[y])'
  BY <1>5, <1>8 DEF Foresees, Looks, Current, Fits, BindingsOf, NewBinding
<1> QED
  BY <1>9 DEF Foreseen

\* The statements that only look.
LEMMA BindForeseen ==
  ASSUME Types, Owned, Foreseen, NEW x \in Txs, BindStep(x)
  PROVE  Foreseen'
<1> DEFINE t == tx[x]
<1>1. t \in Tx /\ Looks(t) /\ (~t.dirty => Current(t))
  BY DEF Types, TypeOK, Foreseen, Foresees
<1>2. CASE NotYetBound(x)
  <2> DEFINE new == [t EXCEPT !.pc = "count", !.seen = {t.dev}]
  <2>1. Looks(new)
    BY <1>1, <1>2 DEF NotYetBound, Looks, Tx
  <2>2. ~t.dirty => Current(new)
    BY <1>1, <1>2 DEF NotYetBound, Current, Fits, Tx
  <2>3. new.dirty = t.dirty
    BY <1>1 DEF Tx
  <2> QED BY <1>2, <2>1, <2>2, <2>3, DoesForeseen DEF NotYetBound, Foresees
<1>3. CASE CountsBindings(x)
  <2> DEFINE alone == BindingsOf(t.dev) = {}
             new == [t EXCEPT !.pc = "battery", !.first = alone]
  <2> HIDE DEF alone
  <2>1. Looks(new)
    BY <1>1, <1>3 DEF CountsBindings, Looks, Tx
  <2>2. ~t.dirty => Current(new)
    BY <1>1, <1>3 DEF CountsBindings, Looks, Current, Fits, Tx
  <2>3. new.dirty = t.dirty
    BY <1>1 DEF Tx
  <2> QED BY <1>3, <2>1, <2>2, <2>3, DoesForeseen DEF CountsBindings, Foresees, alone
<1>4. CASE BindReads(x)
  <2> DEFINE new == [t EXCEPT !.pc = "write", !.saw = battery[t.dev]]
  <2>1. Looks(new)
    BY <1>1, <1>4 DEF BindReads, Looks, Tx
  <2>2. ~t.dirty => Current(new)
    BY <1>1, <1>4 DEF BindReads, Current, Fits, Tx
  <2>3. new.dirty = t.dirty
    BY <1>1 DEF Tx
  <2> QED BY <1>4, <2>1, <2>2, <2>3, DoesForeseen DEF BindReads, Foresees
<1> QED
  BY <1>2, <1>3, <1>4 DEF BindStep

\* An unbind that comes to the row has deleted every binding it sees.
LEMMA UnbindForeseen ==
  ASSUME Types, Owned, Foreseen, NEW x \in Txs, UnbindStep(x)
  PROVE  Foreseen'
<1> DEFINE t == tx[x]
<1>1. t \in Tx /\ Knows(t) /\ Informed(t) /\ Looks(t) /\ (~t.dirty => Current(t))
  BY DEF Types, TypeOK, Owned, Foreseen, Foresees
<1>2. t.op = "unbind" /\ t.dev \in Devices /\ t.pc # "commit" /\ t.pc # "idle"
  BY <1>1 DEF UnbindStep, FindsBinding, DeletesBinding, CountsRemaining, UnbindReads,
     Informed, Knows
<1>3. \A d \in Devices : t.staged[d] = NoRow
  BY <1>1, <1>2 DEF Looks
<1>4. t.logged = {}
  BY <1>1, <1>3 DEF Looks, Tx
<1>5. CASE FindsBinding(x)
  <2>1. PICK b \in BindingsOf(t.dev) :
            Does(x, [t EXCEPT !.pc = "delete", !.gone = {b}, !.seen = {t.dev}])
    BY <1>5 DEF FindsBinding
  <2> DEFINE new == [t EXCEPT !.pc = "delete", !.gone = {b}, !.seen = {t.dev}]
  <2>2. b.device = t.dev
    BY DEF BindingsOf
  <2>3. Looks(new)
    BY <1>1, <1>2, <1>3, <1>4, <2>2 DEF Looks, Tx
  <2>4. Current(new)
    BY <1>1, <1>3, <1>4 DEF Current, Tx
  <2> QED BY <2>1, <2>3, <2>4, DoesForeseen DEF Foresees
<1>6. CASE DeletesBinding(x)
  <2> DEFINE new == [t EXCEPT !.pc = "remain", !.gone = t.gone \cap bindings]
  <2>1. Looks(new)
    BY <1>1, <1>2, <1>3, <1>4, <1>6 DEF DeletesBinding, Looks, Tx
  <2>2. Current(new)
    BY <1>1, <1>3, <1>4 DEF Current, Tx
  <2> QED BY <1>6, <2>1, <2>2, DoesForeseen DEF DeletesBinding, Foresees
<1>7. CASE CountsRemaining(x)
  <2>1. PICK l \in {"battery", "commit"} :
            /\ Does(x, [t EXCEPT !.pc = l])
            /\ IF l = "battery" THEN BindingsOf(t.dev) \subseteq t.gone
                                ELSE ~(BindingsOf(t.dev) \subseteq t.gone)
    BY <1>7 DEF CountsRemaining
  <2> DEFINE new == [t EXCEPT !.pc = l]
  <2>2. Looks(new)
    BY <1>1, <1>2, <1>3, <1>4, <1>7 DEF CountsRemaining, Looks, Tx
  <2>3. Current(new)
    BY <1>1, <1>2, <1>3, <1>4, <2>1 DEF Current, Tx
  <2> QED BY <2>1, <2>2, <2>3, DoesForeseen DEF Foresees
<1>8. CASE UnbindReads(x)
  <2>1. PICK l \in {"write", "commit"} :
            /\ Does(x, [t EXCEPT !.pc = l, !.saw = battery[t.dev]])
            /\ l = "commit" => battery[t.dev] = NoRow
    BY <1>8 DEF UnbindReads
  <2> DEFINE new == [t EXCEPT !.pc = l, !.saw = battery[t.dev]]
  <2>2. Looks(new)
    BY <1>1, <1>2, <1>3, <1>4, <1>8 DEF UnbindReads, Looks, Tx
  <2>3. ~t.dirty => Current(new)
    BY <1>1, <1>2, <1>3, <1>4, <1>8, <2>1 DEF UnbindReads, Current, Tx
  <2>4. new.dirty = t.dirty
    BY <1>1 DEF Tx
  <2> QED BY <2>1, <2>2, <2>3, <2>4, DoesForeseen DEF Foresees
<1> QED
  BY <1>5, <1>6, <1>7, <1>8 DEF UnbindStep

\* The reads of a batch.
LEMMA BatchForeseen ==
  ASSUME Types, Foreseen, NEW x \in Txs, BatchStep(x) \/ RollsBack(x)
  PROVE  Foreseen'
<1> DEFINE t == tx[x]
<1>1. t \in Tx /\ Looks(t) /\ (~t.dirty => Current(t))
  BY DEF Types, TypeOK, Foreseen, Foresees
<1>2. CASE RollsBack(x)
  BY <1>2, NoTxForesees, DoesForeseen DEF RollsBack
<1>3. CASE BatchReads(x)
  <2>1. PICK d \in t.todo :
            Does(x, [t EXCEPT !.pc = "write", !.dev = d, !.todo = @ \ {d},
                              !.saw = battery[d], !.seen = @ \cup {d}])
    BY <1>3 DEF BatchReads
  <2> DEFINE new == [t EXCEPT !.pc = "write", !.dev = d, !.todo = @ \ {d},
                              !.saw = battery[d], !.seen = @ \cup {d}]
  <2>2. t.op \notin {"bind", "unbind"}
    BY <1>3 DEF BatchReads, Batches
  <2>3. Looks(new)
    BY <1>1, <2>2 DEF Looks, Tx
  <2>4. ~t.dirty => Current(new)
    BY <1>1, <2>2 DEF Current, Fits, Tx
  <2>5. new.dirty = t.dirty
    BY <1>1 DEF Tx
  <2> QED BY <2>1, <2>3, <2>4, <2>5, DoesForeseen DEF Foresees
<1>4. CASE BatchEnds(x)
  <2> DEFINE new == [t EXCEPT !.pc = "commit"]
  <2>1. t.op \notin {"bind", "unbind"}
    BY <1>4 DEF BatchEnds, Batches
  <2>2. Looks(new)
    BY <1>1, <2>1 DEF Looks, Tx
  <2>3. ~t.dirty => Current(new)
    BY <1>1, <2>1 DEF Current, Fits, Tx
  <2>4. new.dirty = t.dirty
    BY <1>1 DEF Tx
  <2> QED BY <1>4, <2>2, <2>3, <2>4, DoesForeseen DEF BatchEnds, Foresees
<1> QED
  BY <1>2, <1>3, <1>4 DEF BatchStep

\* What an operation makes of a row that it has read.
LEMMA UpdatedFits ==
  ASSUME NEW t \in Tx, NEW row \in Row,
         t.op \in {"bind", "unbind"} => t.user \in Users
  PROVE  /\ t.op = "bind" => Updated(t, row).act = "ACTIVE"
         /\ t.op = "unbind" => /\ Updated(t, row).act = "INACTIVE"
                               /\ Updated(t, row).status # "USER"
         /\ t.op \in Batches => /\ Updated(t, row).act = row.act
                                /\ Updated(t, row).status = "USER" => row.status = "USER"
         /\ t.op # "bind" \/ (t.saw = row /\ row.org # None /\ row # NoRow)
                => Updated(t, row).org = row.org
<1>1. CASE t.op = "bind"
  BY <1>1 DEF Updated, Bound, Row, Batches
<1>2. CASE t.op = "unbind"
  BY <1>2 DEF Updated, Unbound, Row, Batches
<1>3. CASE t.op \in Batches
  <2>1. t.op \notin {"bind", "unbind"}
    BY <1>3 DEF Batches
  <2>2. Updated(t, row) = Handed(t, row)
    BY <2>1 DEF Updated
  <2>3. /\ Handed(t, row).act = row.act /\ Handed(t, row).org = row.org
        /\ Handed(t, row).status = "USER" => row.status = "USER"
    BY <1>3 DEF Handed, Batches, Row
  <2> QED BY <2>1, <2>2, <2>3
<1> QED
  BY <1>1, <1>2, <1>3 DEF Tx, Ops

\* What a clean transaction writes fits the row that is committed.
LEMMA WrittenFits ==
  ASSUME Types, NEW t \in Tx, Knows(t), t.pc = "write", t.saw = battery[t.dev],
         NEW n, n.op = t.op, n.staged[t.dev] = Written(t)
  PROVE  Fits(n, t.dev)
<1>1. t.dev \in Devices /\ battery[t.dev] \in Row \cup {NoRow}
  BY DEF Knows, Types, TypeOK
<1>2. t.op \in {"bind", "unbind"} => t.user \in Users
  BY DEF Knows
<1>3. Factory \in Row /\ Factory.act = "INACTIVE" /\ Factory.status = "FACTORY"
  BY DEF Factory, Row
<1>4. CASE t.saw = NoRow
  <2>1. CASE t.op = "transfer"
    <3>1. Written(t) = [Factory EXCEPT !.dealer = t.to]
      BY <1>4, <2>1 DEF Written, Created
    <3>2. Written(t).act = "INACTIVE" /\ Written(t).status = "FACTORY"
      BY <1>3, <3>1 DEF Row
    <3> QED BY <1>4, <2>1, <3>2 DEF Fits
  <2>2. CASE t.op # "transfer"
    <3>1. Written(t) = Updated(t, Factory)
      BY <1>4, <2>2 DEF Written, Created
    <3> QED BY <1>2, <1>3, <1>4, <3>1, UpdatedFits DEF Fits
  <2> QED BY <2>1, <2>2
<1>5. CASE t.saw # NoRow
  <2>1. Written(t) = Updated(t, battery[t.dev]) /\ battery[t.dev] \in Row
    BY <1>1, <1>5 DEF Written
  <2>2. t.op # "bind" \/ battery[t.dev].org # None
            => Updated(t, battery[t.dev]).org = battery[t.dev].org
    BY <1>2, <1>5, <2>1, UpdatedFits
  <2> QED BY <1>2, <1>5, <2>1, <2>2, UpdatedFits DEF Fits
<1> QED
  BY <1>4, <1>5

LEMMA WrittenIsSome ==
  ASSUME Types, NEW t \in Tx, Knows(t), t.pc = "write"
  PROVE  Written(t) # NoRow
<1>1. t.op \in {"bind", "unbind"} => t.user \in Users
  BY DEF Knows
<1>2. Factory \in Row
  BY DEF Factory, Row
<1>3. [Factory EXCEPT !.dealer = t.to] \in Row
  BY <1>2 DEF Row, Tx
<1>4. t.saw # NoRow => battery[t.dev] \in Row
  BY DEF Knows, Types, TypeOK
<1>5. Written(t) \in Row
  BY <1>1, <1>2, <1>3, <1>4, WrittenIsRow DEF Written, Created
<1> QED
  BY <1>5, OwnershipAssumption

\* The write of a clean transaction stages what fits and logs what is committed.
LEMMA WriteForeseen ==
  ASSUME Types, Foreseen, NEW x \in Txs, WritesBattery(x)
  PROVE  Foreseen'
<1> DEFINE t == tx[x]
<1>1. /\ t \in Tx /\ Knows(t) /\ t.pc = "write" /\ t.dev \in Devices
      /\ Looks(t) /\ (~t.dirty => Current(t))
  BY DEF Types, TypeOK, WritesBattery, Knows, Foreseen, Foresees
<1>2. PICK n \in Tx :
          /\ Does(x, n)
          /\ n.adds = NewBinding(t) /\ n.pc = AfterWrite(t)
          /\ n.id = t.id /\ n.op = t.op /\ n.user = t.user /\ n.dev = t.dev
          /\ n.first = t.first /\ n.seen = t.seen /\ n.dirty = t.dirty /\ n.gone = t.gone
          /\ n.logged = t.logged \cup Logs(t)
          /\ n.staged = [t.staged EXCEPT ![t.dev] = Written(t)]
  BY <1>1, WriteIsTx
<1>3. Written(t) # NoRow
  BY <1>1, WrittenIsSome
<1>4. /\ n.staged[t.dev] = Written(t)
      /\ \A d \in Devices : d # t.dev => n.staged[d] = t.staged[d]
  BY <1>1, <1>2 DEF Tx
<1>5. \A e \in t.logged : e[1] \in Devices
  BY <1>1 DEF Tx
<1>6. \A e \in Logs(t) : e[1] = t.dev /\ e[2] = t.saw.dealer
  BY DEF Logs
<1>7. n.pc = IF t.op \in {"bind", "unbind"} THEN "commit" ELSE "battery"
  BY <1>2 DEF AfterWrite
<1>8. NewBinding(n) = NewBinding(t)
  BY <1>2 DEF NewBinding
<1>9. Looks(n)
  <2>1. \A d \in Devices : n.staged[d] # NoRow => d \in n.seen
    BY <1>1, <1>2, <1>4 DEF Looks
  <2>2. \A d \in Devices : n.op \in {"bind", "unbind"} /\ n.staged[d] # NoRow
                               => d = n.dev /\ n.pc = "commit"
    BY <1>1, <1>2, <1>4, <1>7 DEF Looks
  <2>3. \A e \in n.logged : n.staged[e[1]] # NoRow
    BY <1>1, <1>2, <1>3, <1>4, <1>5, <1>6 DEF Looks
  <2> QED BY <1>1, <1>2, <1>3, <1>4, <1>7, <1>8, <2>1, <2>2, <2>3 DEF Looks
<1>10. ASSUME ~t.dirty PROVE Current(n)
  <2>1. Current(t) /\ t.saw = battery[t.dev]
    BY <1>1, <1>10 DEF Current
  <2>2. \A e \in n.logged : battery[e[1]].dealer = e[2]
    BY <1>2, <1>6, <2>1 DEF Current
  <2>3. \A d \in Devices : n.staged[d] # NoRow => Fits(n, d)
    <3> SUFFICES ASSUME NEW d \in Devices, n.staged[d] # NoRow PROVE Fits(n, d)
      OBVIOUS
    <3>1. CASE d = t.dev
      BY <1>1, <1>2, <1>4, <2>1, <3>1, WrittenFits
    <3>2. CASE d # t.dev
      BY <1>2, <1>4, <2>1, <3>2 DEF Current, Fits
    <3> QED BY <3>1, <3>2
  <2>4. n.op = "unbind" => BindingsOf(n.dev) \subseteq n.gone
    BY <1>1, <1>2, <2>1 DEF Current
  <2> QED BY <1>2, <1>3, <1>4, <1>7, <2>2, <2>3, <2>4 DEF Current
<1> QED
  BY <1>2, <1>9, <1>10, DoesForeseen DEF Foresees

\* A commit changes only the devices it touches.
LEMMA UntouchedStays ==
  ASSUME Types, NEW x \in Txs, Commits(x), NEW d \in Devices, d \notin Touched(tx[x])
  PROVE  battery'[d] = battery[d] /\ BindingsOf(d)' = BindingsOf(d)
<1>1. tx[x].staged[d] = NoRow
  BY DEF Touched
<1>2. \A b \in tx[x].adds \cup tx[x].gone : b.device # d
  BY DEF Touched
<1> QED
  BY <1>1, <1>2 DEF Commits, BindingsOf

\* Who stays clean has looked at no device that the commit touches.
LEMMA CommitForeseen ==
  ASSUME Types, Foreseen, NEW x \in Txs, Commits(x)
  PROVE  Foreseen'
<1> DEFINE t == tx[x]
<1>1. ASSUME NEW y \in Txs, y # x
      PROVE  Foresees(tx[y])'
  <2> DEFINE o == tx[y]
             n == tx'[y]
             b == o.dirty \/ o.seen \cap Touched(t) # {}
  <2>1. /\ o \in Tx /\ Knows(o) /\ Looks(o) /\ (~o.dirty => Current(o))
        /\ n = [o EXCEPT !.dirty = b]
    BY <1>1 DEF Types, TypeOK, Foreseen, Foresees, Commits
  <2>2. ~b => ~o.dirty /\ o.seen \cap Touched(t) = {}
    BY Zenon
  <2> HIDE DEF b
  <2>3. /\ n.pc = o.pc /\ n.op = o.op /\ n.id = o.id /\ n.user = o.user /\ n.dev = o.dev
        /\ n.first = o.first /\ n.saw = o.saw /\ n.seen = o.seen /\ n.adds = o.adds
        /\ n.gone = o.gone /\ n.logged = o.logged /\ n.staged = o.staged /\ n.dirty = b
    BY <2>1 DEF Tx
  <2>4. NewBinding(n) = NewBinding(o)
    BY <2>3 DEF NewBinding
  <2> HIDE DEF n
  <2>5. Looks(n)
    BY <2>1, <2>3, <2>4 DEF Looks
  <2>6. ASSUME ~b PROVE Current(tx[y])'
    <3> DEFINE After(d) == {c \in bindings' : c.device = d}
    <3>1. \A d \in Devices : d \in o.seen =>
              battery'[d] = battery[d] /\ After(d) = BindingsOf(d)
      <4>1. \A d \in Devices : After(d) = BindingsOf(d)'
        BY DEF BindingsOf
      <4> HIDE DEF After
      <4> QED BY <2>2, <2>6, <4>1, UntouchedStays
    <3>2. Current(o)
      BY <2>1, <2>2, <2>6
    <3>3. o.pc = "write" => battery'[o.dev] = battery[o.dev]
      BY <2>1, <3>1 DEF Looks, Knows
    <3>4. \A e \in o.logged : battery'[e[1]] = battery[e[1]]
      <4>1. \A e \in o.logged : e[1] \in Devices
        BY <2>1 DEF Tx
      <4> QED BY <2>1, <3>1, <4>1 DEF Looks
    <3>5. \A d \in Devices : n.staged[d] # NoRow => Fits(tx[y], d)'
      BY <2>1, <2>3, <3>1, <3>2 DEF Current, Looks, Fits, n
    <3>6. o.op = "unbind" /\ o.pc \notin {"idle", "bound"} =>
              battery'[o.dev] = battery[o.dev] /\ After(o.dev) = BindingsOf(o.dev)
      <4> HIDE DEF After
      <4> QED BY <2>1, <3>1 DEF Looks, Knows
    <3>7. n.pc = "write" => n.saw = battery'[n.dev]
      BY <2>3, <3>2, <3>3 DEF Current
    <3>8. \A e \in n.logged : battery'[e[1]].dealer = e[2]
      BY <2>3, <3>2, <3>4 DEF Current
    <3>9. n.op = "unbind" /\ n.pc \in {"battery", "write"} => After(n.dev) \subseteq n.gone
      <4> HIDE DEF After
      <4> QED BY <2>3, <3>2, <3>6 DEF Current
    <3>10. n.op = "unbind" /\ n.pc = "commit" =>
               IF n.staged[n.dev] = NoRow
               THEN After(n.dev) \subseteq n.gone => battery'[n.dev] = NoRow
               ELSE After(n.dev) \subseteq n.gone
      <4> HIDE DEF After
      <4> QED BY <2>3, <3>2, <3>6 DEF Current
    <3> HIDE DEF o
    <3> QED BY <3>5, <3>7, <3>8, <3>9, <3>10 DEF Current, BindingsOf, n
  <2>7. Looks(tx[y])'
    BY <2>5 DEF Looks, NewBinding, n
  <2>8. ~tx[y].dirty' => ~b
    BY <2>3 DEF n
  <2> QED BY <2>6, <2>7, <2>8 DEF Foresees
<1>2. Foresees(tx[x])'
  <2>1. tx'[x] = NoTx
    BY DEF Commits
  <2> QED BY <2>1 DEF NoTx, Foresees, Looks, Current
<1> QED
  BY <1>1, <1>2 DEF Foreseen

LEMMA StepForeseen == Types /\ Owned /\ Foreseen /\ [Next]_vars => Foreseen'
<1>1. ASSUME Foreseen, UNCHANGED vars PROVE Foreseen'
  BY <1>1 DEF vars, Foreseen, Foresees, Looks, Current, Fits, BindingsOf, NewBinding
<1> QED
  BY <1>1, RequestForeseen, BindForeseen, UnbindForeseen, BatchForeseen, WriteForeseen,
     CommitForeseen DEF Next

-----------------------------------------------------------------------------
(* What a commit leaves behind.                                             *)

\* A device that a commit touches and that is not raced was committed by a clean
\* transaction.
LEMMA TouchedClean ==
  ASSUME Foreseen, NEW x \in Txs, Commits(x),
         NEW d \in Touched(tx[x]), d \notin raced'
  PROVE  Current(tx[x])
<1>1. ~tx[x].dirty
  BY DEF Commits
<1> QED
  BY <1>1 DEF Foreseen, Foresees

LEMMA InitActive == Init => ActiveIffBound
<1> SUFFICES ASSUME Init, NEW d \in Devices
             PROVE  BindingsOf(d) = {} /\ (battery[d] = NoRow \/ battery[d] = Factory)
  BY DEF ActiveIffBound, Factory
<1> QED
  BY DEF Init, BindingsOf

\* A bind adds a binding and activates, an unbind that resets has deleted the last
\* one, one that does not leaves another, and a batch changes neither.
LEMMA CommitActive ==
  ASSUME Types, Owned, Foreseen, ActiveIffBound, NEW x \in Txs, Commits(x)
  PROVE  ActiveIffBound'
<1> DEFINE t == tx[x]
<1>1. /\ t \in Tx /\ Informed(t) /\ Looks(t) /\ t.pc = "commit" /\ Knows(t)
      /\ bindings' = (bindings \ t.gone) \cup t.adds
      /\ battery' = [d \in Devices |-> IF t.staged[d] = NoRow THEN battery[d] ELSE t.staged[d]]
      /\ raced \subseteq raced'
  BY DEF Types, TypeOK, Owned, Foreseen, Foresees, Commits
<1> DEFINE After(d) == {b \in bindings' : b.device = d}
           Good(row, bound) ==
               IF bound = {}
               THEN row = NoRow \/ (row.act = "INACTIVE" /\ row.status # "USER")
               ELSE row # NoRow /\ row.act = "ACTIVE"
<1> SUFFICES ASSUME NEW d \in Devices, d \notin raced'
             PROVE  Good(battery'[d], After(d))
  BY DEF ActiveIffBound, BindingsOf
<1>2. Good(battery[d], BindingsOf(d))
  BY <1>1 DEF ActiveIffBound
<1>3. CASE d \notin Touched(t)
  <2>1. battery'[d] = battery[d] /\ After(d) = BindingsOf(d)
    BY <1>3, UntouchedStays DEF BindingsOf
  <2> HIDE DEF After
  <2> QED BY <1>2, <2>1
<1>4. CASE d \in Touched(t)
  <2>1. Current(t)
    BY <1>4, TouchedClean
  <2>2. CASE t.op = "bind"
    <3>1. t.gone = {} /\ t.adds = NewBinding(t) /\ t.staged[t.dev] # NoRow
      BY <1>1, <2>2 DEF Looks
    <3>2. \A b \in t.adds : b.device = t.dev
      BY <3>1 DEF NewBinding
    <3>3. d = t.dev
      BY <1>1, <1>4, <2>2, <3>1, <3>2 DEF Touched, Looks
    <3>4. After(d) # {}
      <4>1. PICK b : b \in t.adds
        BY <2>2, <3>1 DEF NewBinding
      <4>2. b \in After(d)
        BY <1>1, <3>2, <3>3, <4>1
      <4> QED BY <4>2
    <3>5. battery'[d] = t.staged[d] /\ t.staged[d] # NoRow /\ t.staged[d].act = "ACTIVE"
      BY <1>1, <2>1, <2>2, <3>1, <3>3 DEF Current, Fits
    <3> HIDE DEF After
    <3> QED BY <3>4, <3>5
  <2>3. CASE t.op = "unbind"
    <3>1. t.adds = {}
      BY <1>1, <2>3 DEF Informed, NewBinding
    <3>2. d = t.dev
      BY <1>1, <1>4, <2>3, <3>1 DEF Touched, Looks
    <3>3. After(d) = BindingsOf(d) \ t.gone
      BY <1>1, <3>1 DEF BindingsOf
    <3> HIDE DEF After
    <3>4. CASE t.staged[d] = NoRow
      <4>1. battery'[d] = battery[d]
        BY <1>1, <3>4
      <4>2. BindingsOf(d) \subseteq t.gone => battery[d] = NoRow
        BY <1>1, <2>1, <2>3, <3>2, <3>4 DEF Current
      <4> QED BY <1>2, <3>3, <4>1, <4>2
    <3>5. CASE t.staged[d] # NoRow
      <4>1. battery'[d] = t.staged[d] /\ t.staged[d].act = "INACTIVE"
            /\ t.staged[d].status # "USER"
        BY <1>1, <2>1, <2>3, <3>5 DEF Current, Fits
      <4>2. BindingsOf(d) \subseteq t.gone
        BY <1>1, <2>1, <2>3, <3>2, <3>5 DEF Current
      <4> QED BY <3>3, <4>1, <4>2
    <3> QED BY <3>4, <3>5
  <2>4. CASE t.op \in Batches
    <3>1. t.op # "bind" /\ t.op # "unbind"
      BY <2>4 DEF Batches
    <3>2. t.gone = {} /\ t.adds = {}
      BY <1>1, <3>1 DEF Looks, Informed, NewBinding
    <3>3. After(d) = BindingsOf(d)
      BY <1>1, <3>2 DEF BindingsOf
    <3> HIDE DEF After
    <3>4. t.staged[d] # NoRow
      BY <1>4, <3>2 DEF Touched
    <3>5. /\ battery'[d] = t.staged[d]
          /\ t.staged[d].act = IF battery[d] = NoRow THEN "INACTIVE" ELSE battery[d].act
          /\ t.staged[d].status = "USER" => battery[d] # NoRow /\ battery[d].status = "USER"
      BY <1>1, <2>1, <2>4, <3>4 DEF Current, Fits
    <3> QED BY <1>2, <3>3, <3>4, <3>5
  <2> QED BY <1>1, <2>2, <2>3, <2>4 DEF Tx, Ops
<1> QED
  BY <1>3, <1>4

\* Every other step leaves what is committed.
LEMMA OnlyCommitWrites ==
  ASSUME [Next]_vars
  PROVE  (\E x \in Txs : Commits(x)) \/ UNCHANGED <<battery, bindings, raced>>
<1>1. CASE UNCHANGED vars
  BY <1>1 DEF vars
<1>2. ASSUME NEW x \in Txs, CountsBindings(x)
      PROVE  UNCHANGED <<battery, bindings, raced>>
  BY <1>2, Zenon DEF CountsBindings, Does
<1>3. ASSUME NEW x \in Txs, Bind(x) \/ Unbind(x) \/ ForceUnbind(x) \/ Batch(x)
      PROVE  UNCHANGED <<battery, bindings, raced>>
  BY <1>3 DEF Bind, Unbind, ForceUnbind, Batch, Begins
<1>4. ASSUME NEW x \in Txs, NotYetBound(x) \/ BindReads(x) \/ UnbindStep(x)
      PROVE  UNCHANGED <<battery, bindings, raced>>
  BY <1>4 DEF NotYetBound, BindReads, UnbindStep, FindsBinding, DeletesBinding,
     CountsRemaining, UnbindReads, Does
<1>5. ASSUME NEW x \in Txs, BatchStep(x) \/ WritesBattery(x) \/ RollsBack(x)
      PROVE  UNCHANGED <<battery, bindings, raced>>
  BY <1>5 DEF BatchStep, BatchReads, BatchEnds, WritesBattery, RollsBack, Does
<1> QED
  BY <1>1, <1>2, <1>3, <1>4, <1>5 DEF Next, BindStep

LEMMA StepActive ==
  Types /\ Owned /\ Foreseen /\ ActiveIffBound /\ [Next]_vars => ActiveIffBound'
<1>1. ASSUME ActiveIffBound, UNCHANGED <<battery, bindings, raced>>
      PROVE  ActiveIffBound'
  BY <1>1 DEF ActiveIffBound, BindingsOf
<1> QED
  BY <1>1, CommitActive, OnlyCommitWrites

\* A battery that no requests raced for is active exactly while a user is bound to
\* it, through any mixture of binds, unbinds and hand-overs between dealers.
THEOREM ActiveWhileBound == Spec => []ActiveIffBound
<1> DEFINE Inv == Types /\ Owned /\ Foreseen /\ ActiveIffBound
<1>1. Init => Inv
  BY InitTypes, InitOwned, InitForeseen, InitActive
<1>2. Inv /\ [Next]_vars => Inv'
  BY StepTypes, StepOwned, StepForeseen, StepActive
<1>3. Inv => ActiveIffBound
  OBVIOUS
<1> QED
  BY <1>1, <1>2, <1>3, PTL DEF Spec

\* No operation takes a device from the organisation that owns it, unless the
\* device was raced for.
THEOREM OrgStays == Spec => OrgIsKept
<1> DEFINE Inv == Types /\ Owned /\ Foreseen
           Kept == \A d \in Devices :
                       battery[d] # NoRow /\ battery[d].org # None /\ d \notin raced'
                           => battery'[d].org = battery[d].org
<1>1. Init => Inv
  BY InitTypes, InitOwned, InitForeseen
<1>2. Inv /\ [Next]_vars => Inv'
  BY StepTypes, StepOwned, StepForeseen
<1>3. Inv /\ [Next]_vars => [Kept]_vars
  <2> SUFFICES ASSUME Inv, [Next]_vars, NEW d \in Devices,
                      battery[d] # NoRow, battery[d].org # None, d \notin raced'
               PROVE  battery'[d].org = battery[d].org
    OBVIOUS
  <2>1. CASE UNCHANGED <<battery, bindings, raced>>
    BY <2>1
  <2>2. ASSUME NEW x \in Txs, Commits(x)
        PROVE  battery'[d].org = battery[d].org
    <3>1. CASE d \notin Touched(tx[x])
      BY <2>2, <3>1, UntouchedStays
    <3>2. CASE d \in Touched(tx[x])
      <4>1. Current(tx[x])
        BY <2>2, <3>2, TouchedClean
      <4>2. battery'[d] = IF tx[x].staged[d] = NoRow THEN battery[d] ELSE tx[x].staged[d]
        BY <2>2 DEF Commits
      <4> QED BY <4>1, <4>2 DEF Current, Fits
    <3> QED BY <3>1, <3>2
  <2> QED BY <2>1, <2>2, OnlyCommitWrites
<1> QED
  BY <1>1, <1>2, <1>3, PTL DEF Spec, OrgIsKept

\* The dealer that the transfer log names as the previous one is the dealer that
\* the commit replaces, unless the device was raced for.
THEOREM LogIsTrue == Spec => LogTellsThePast
<1> DEFINE Inv == Types /\ Owned /\ Foreseen
           True == \A x \in Txs : CommitStep(x) =>
                       \A e \in tx[x].logged : battery[e[1]].dealer = e[2] \/ e[1] \in raced'
<1>1. Init => Inv
  BY InitTypes, InitOwned, InitForeseen
<1>2. Inv /\ [Next]_vars => Inv'
  BY StepTypes, StepOwned, StepForeseen
<1>3. Inv /\ [Next]_vars => [True]_vars
  <2> SUFFICES ASSUME Inv, [Next]_vars, NEW x \in Txs, CommitStep(x), NEW e \in tx[x].logged
               PROVE  battery[e[1]].dealer = e[2] \/ e[1] \in raced'
    OBVIOUS
  <2>1. PICK y \in Txs : Commits(y)
    BY OnlyCommitWrites DEF CommitStep
  <2>2. y = x
    <3>1. y # x => tx'[x] = [tx[x] EXCEPT !.dirty =
                                @ \/ tx[x].seen \cap Touched(tx[y]) # {}]
      BY <2>1 DEF Commits
    <3>2. y # x => tx'[x].pc = tx[x].pc
      BY <3>1 DEF Types, TypeOK, Tx
    <3> QED BY <3>2 DEF CommitStep
  <2>3. tx[x].staged[e[1]] # NoRow /\ e[1] \in Devices
    BY DEF Foreseen, Foresees, Looks, Types, TypeOK, Tx
  <2>4. e[1] \in Touched(tx[x])
    BY <2>3 DEF Touched
  <2>5. e[1] \notin raced' => Current(tx[x])
    BY <2>1, <2>2, <2>4, TouchedClean
  <2> QED BY <2>5 DEF Current
<1> QED
  BY <1>1, <1>2, <1>3, PTL DEF Spec, LogTellsThePast
=============================================================================
