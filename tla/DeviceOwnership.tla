-------------------------- MODULE DeviceOwnership --------------------------
(***************************************************************************)
(* Who a battery belongs to: the app binds and unbinds users (BindDevice,  *)
(* UnbindDevice, ForceUnbind), the console hands devices to dealers        *)
(* (TransferDevices, BatchAssignDealer, ImportBatteryList). Every          *)
(* operation is one READ COMMITTED transaction: each statement reads what  *)
(* is committed, a row it writes stays locked until the transaction ends,  *)
(* and what it wrote is seen by the others once it commits.                *)
(*                                                                         *)
(* device_batteries has one row per device (primary key); there is no      *)
(* unique key on device_user_bindings (sql/13.sql), so two bindings of a   *)
(* device never conflict in the database.                                  *)
(***************************************************************************)
EXTENDS Naturals, FiniteSets

CONSTANTS
    Txs,      \* transactions that may run at the same time
    MaxBegun, \* bound on the transactions begun
    Devices,
    Users,
    Orgs,
    UserOrg,  \* the organisation of each user, or None
    Above,    \* org_closure: pairs <<ancestor, descendant>>
    Dealers,
    None,     \* NULL
    NoRow     \* no row of device_batteries

Row == [org : Orgs \cup {None}, dealer : Dealers \cup {None},
        act : {"INACTIVE", "ACTIVE"}, status : {"FACTORY", "DEALER", "USER"}]

ASSUME OwnershipAssumption ==
    /\ MaxBegun \in Nat
    /\ NoRow \notin Row
    /\ None \notin Orgs \cup Dealers
    /\ UserOrg \in [Users -> Orgs \cup {None}]
    /\ Above \subseteq Orgs \X Orgs

VARIABLES
    battery,  \* device_batteries: the committed row of each device, or NoRow
    bindings, \* device_user_bindings: the committed rows
    tx,       \* the transactions
    begun,    \* how many were begun; the id of a binding is that of its transaction
    raced     \* devices a transaction wrote over a commit that came after its reads

vars == <<battery, bindings, tx, begun, raced>>

Binding == [id : 1..MaxBegun, user : Users, device : Devices, owner : BOOLEAN]

Batches == {"transfer", "assign", "import"}
Ops     == {"bind", "unbind"} \cup Batches

Pcs == {"idle", "bound", "count", "delete", "remain", "battery", "write", "commit"}

\* What a transaction knows and has not committed. "todo" are the devices
\* of the request it has not come to, "dev" the one it is at.
Tx == [pc : Pcs, id : 0..MaxBegun, op : Ops, user : Users \cup {None},
       to : Dealers \cup {None}, scope : Orgs \cup Dealers \cup {None},
       todo : SUBSET Devices,
       dev : Devices \cup {None}, first : BOOLEAN, saw : Row \cup {NoRow},
       staged : [Devices -> Row \cup {NoRow}], adds : SUBSET Binding, gone : SUBSET Binding,
       logged : SUBSET (Devices \X (Dealers \cup {None})), seen : SUBSET Devices, dirty : BOOLEAN]

Factory == [org |-> None, dealer |-> None, act |-> "INACTIVE", status |-> "FACTORY"]

NoTx == [pc |-> "idle", id |-> 0, op |-> "bind", user |-> None, to |-> None,
         scope |-> None, todo |-> {}, dev |-> None,
         first |-> FALSE, saw |-> NoRow, staged |-> [d \in Devices |-> NoRow], adds |-> {},
         gone |-> {}, logged |-> {}, seen |-> {}, dirty |-> FALSE]

Init ==
    /\ battery \in [Devices -> {NoRow, Factory}]
    /\ bindings = {}
    /\ tx = [x \in Txs |-> NoTx]
    /\ begun = 0
    /\ raced = {}

-----------------------------------------------------------------------------
(* Transactions.                                                            *)

BindingsOf(d) == {b \in bindings : b.device = d}

Locked(x, d) == \E y \in Txs \ {x} : tx[y].staged[d] # NoRow

Begins(x, request) ==
    /\ tx[x].pc = "idle"
    /\ begun < MaxBegun
    /\ begun' = begun + 1
    /\ tx' = [tx EXCEPT ![x] = [request EXCEPT !.id = begun + 1]]
    /\ UNCHANGED <<battery, bindings, raced>>

\* A statement of x changes only what x holds.
Does(x, t) ==
    /\ tx' = [tx EXCEPT ![x] = t]
    /\ UNCHANGED <<battery, bindings, begun, raced>>

\* Every error returns after a rollback: an exists check, a permission, a
\* duplicate key, a deadlock, a statement that fails.
RollsBack(x) ==
    /\ tx[x].pc # "idle"
    /\ Does(x, NoTx)

Touched(t) ==
    {d \in Devices : t.staged[d] # NoRow} \cup {b.device : b \in t.adds \cup t.gone}

Commits(x) ==
    LET t == tx[x] IN
    /\ t.pc = "commit"
    /\ battery' = [d \in Devices |-> IF t.staged[d] = NoRow THEN battery[d] ELSE t.staged[d]]
    /\ bindings' = (bindings \ t.gone) \cup t.adds
    /\ raced' = IF t.dirty THEN raced \cup Touched(t) ELSE raced
    /\ tx' = [y \in Txs |->
                 IF y = x THEN NoTx
                 ELSE [tx[y] EXCEPT !.dirty = @ \/ tx[y].seen \cap Touched(t) # {}]]
    /\ UNCHANGED begun

-----------------------------------------------------------------------------
(* BindDevice.                                                              *)

Bind(x) ==
    \E u \in Users, d \in Devices :
        Begins(x, [NoTx EXCEPT !.pc = "bound", !.op = "bind", !.user = u, !.dev = d])

NotYetBound(x) ==
    LET t == tx[x] IN
    /\ t.pc = "bound" /\ t.op = "bind"
    /\ ~\E b \in BindingsOf(t.dev) : b.user = t.user
    /\ Does(x, [t EXCEPT !.pc = "count", !.seen = {t.dev}])

\* Mutant: only the user's own bindings are looked at.
CountsOwnBindings(x) ==
    LET t == tx[x] IN
    /\ t.pc = "count"
    /\ Does(x, [t EXCEPT !.pc = "battery",
                         !.first = {b \in BindingsOf(t.dev) : b.user = t.user} = {}])

CountsBindings(x) ==
    LET t == tx[x] IN
    /\ t.pc = "count"
    /\ Does(x, [t EXCEPT !.pc = "battery", !.first = BindingsOf(t.dev) = {}])

\* The organisation must be above the owner's, when both are known.
InScope(org, row) ==
    org # None /\ row # NoRow => row.org = None \/ <<org, row.org>> \in Above

BindReads(x) ==
    LET t == tx[x] IN
    /\ t.pc = "battery" /\ t.op = "bind"
    /\ InScope(UserOrg[t.user], battery[t.dev])
    /\ Does(x, [t EXCEPT !.pc = "write", !.saw = battery[t.dev]])

\* Mutant: the owner's organisation is always set.
BoundToUserOrg(t, row) ==
    [row EXCEPT !.act = "ACTIVE", !.status = "USER",
                !.org = IF UserOrg[t.user] = None THEN row.org ELSE UserOrg[t.user]]

\* Only the organisation depends on what was read.
Bound(t, row) ==
    [row EXCEPT !.act = "ACTIVE", !.status = "USER",
                !.org = IF t.saw = NoRow \/ t.saw.org = None
                        THEN IF UserOrg[t.user] = None THEN row.org ELSE UserOrg[t.user]
                        ELSE row.org]

-----------------------------------------------------------------------------
(* UnbindDevice, and ForceUnbind by the id of the binding.                  *)

Unbind(x) ==
    \E u \in Users, d \in Devices :
        Begins(x, [NoTx EXCEPT !.pc = "bound", !.op = "unbind", !.user = u, !.dev = d])

FindsBinding(x) ==
    LET t == tx[x] IN
    /\ t.pc = "bound" /\ t.op = "unbind"
    /\ \E b \in BindingsOf(t.dev) :
           /\ b.user = t.user
           /\ Does(x, [t EXCEPT !.pc = "delete", !.gone = {b}, !.seen = {t.dev}])

\* The statements before the delete keep nothing but the binding. The scope is
\* looked at only when the battery could be read.
ForceUnbind(x) ==
    \E b \in bindings, scope \in Orgs \cup {None}, unread \in BOOLEAN :
        /\ unread \/ InScope(scope, battery[b.device])
        /\ Begins(x, [NoTx EXCEPT !.pc = "delete", !.op = "unbind", !.user = b.user,
                                  !.dev = b.device, !.gone = {b}, !.seen = {b.device}])

\* The delete waits for another transaction that deletes the same row; it
\* deletes nothing, and reports no error, when that one commits.
DeletesBinding(x) ==
    LET t == tx[x] IN
    /\ t.pc = "delete"
    /\ \A y \in Txs \ {x} : tx[y].pc \in {"idle", "delete"} \/ tx[y].gone \cap t.gone = {}
    /\ Does(x, [t EXCEPT !.pc = "remain", !.gone = t.gone \cap bindings])

\* Mutant: the activation is reset whether or not others are bound.
ResetsAlways(x) ==
    LET t == tx[x] IN
    /\ t.pc = "remain"
    /\ Does(x, [t EXCEPT !.pc = "battery"])

CountsRemaining(x) ==
    LET t == tx[x] IN
    /\ t.pc = "remain"
    /\ Does(x, [t EXCEPT !.pc = IF BindingsOf(t.dev) \ t.gone = {} THEN "battery" ELSE "commit"])

UnbindReads(x) ==
    LET t == tx[x] IN
    /\ t.pc = "battery" /\ t.op = "unbind"
    /\ Does(x, [t EXCEPT !.pc = IF battery[t.dev] = NoRow THEN "commit" ELSE "write",
                         !.saw = battery[t.dev]])

\* Mutant: a status the column does not have.
Returned(t, row) ==
    [row EXCEPT !.act = "INACTIVE", !.status = IF t.saw.org # None THEN "RETURNED" ELSE "FACTORY"]

Unbound(t, row) ==
    [row EXCEPT !.act = "INACTIVE", !.status = IF t.saw.org # None THEN "DEALER" ELSE "FACTORY"]

-----------------------------------------------------------------------------
(* The batches: each device is read, then written.                          *)

\* Only an assignment is made by a dealer, and it names the one to assign to.
Batch(x) ==
    \E op \in Batches, to, scope \in Dealers \cup {None}, devices \in SUBSET Devices \ {{}} :
        /\ op = "assign" => to # None
        /\ op # "assign" => scope = None
        /\ Begins(x, [NoTx EXCEPT !.pc = "battery", !.op = op, !.to = to, !.scope = scope,
                                  !.todo = devices])

\* A dealer may only take devices of its own, or of nobody.
MayAssign(t, row) ==
    t.op = "assign" /\ t.scope # None /\ row # NoRow => row.dealer \in {None, t.scope}

BatchReads(x) ==
    LET t == tx[x] IN
    /\ t.pc = "battery" /\ t.op \in Batches
    /\ \E d \in t.todo :
           /\ MayAssign(t, battery[d])
           /\ Does(x, [t EXCEPT !.pc = "write", !.dev = d, !.todo = @ \ {d},
                                !.saw = battery[d], !.seen = @ \cup {d}])

BatchEnds(x) ==
    LET t == tx[x] IN
    /\ t.pc = "battery" /\ t.op \in Batches
    /\ t.todo = {}
    /\ Does(x, [t EXCEPT !.pc = "commit"])

Handed(t, row) ==
    CASE t.op = "transfer" ->
             [row EXCEPT !.dealer = t.to, !.status = IF t.to = None THEN "FACTORY" ELSE "DEALER"]
      [] t.op = "assign" -> [row EXCEPT !.dealer = t.to, !.status = "DEALER"]
      [] t.op = "import" -> [row EXCEPT !.dealer = IF t.to = None THEN @ ELSE t.to]

-----------------------------------------------------------------------------
(* The write of the battery row, by each of them.                           *)

Updated(t, row) ==
    CASE t.op = "bind"   -> Bound(t, row)
      [] t.op = "unbind" -> Unbound(t, row)
      [] OTHER           -> Handed(t, row)

\* A transfer that finds no row leaves the status to its default.
Created(t) ==
    IF t.op = "transfer" THEN [Factory EXCEPT !.dealer = t.to] ELSE Updated(t, Factory)

\* Mutant: the log is written from the request, after the update.
LogsTarget(t) == IF t.op = "transfer" /\ t.saw # NoRow THEN {<<t.dev, t.to>>} ELSE {}

\* Only a transfer of an existing row is logged.
Logs(t) == IF t.op = "transfer" /\ t.saw # NoRow THEN {<<t.dev, t.saw.dealer>>} ELSE {}

NewBinding(t) ==
    IF t.op = "bind"
    THEN {[id |-> t.id, user |-> t.user, device |-> t.dev, owner |-> t.first]}
    ELSE {}

AfterWrite(t) == IF t.op \in {"bind", "unbind"} THEN "commit" ELSE "battery"

\* The write waits for the row lock. An insert meets a duplicate key, and the
\* transaction rolls back, when the row has been created since it was read.
WritesBattery(x) ==
    LET t == tx[x] IN
    /\ t.pc = "write"
    /\ ~Locked(x, t.dev)
    /\ t.saw = NoRow => battery[t.dev] = NoRow
    /\ Does(x, [t EXCEPT
                  !.staged[t.dev] = IF t.saw = NoRow THEN Created(t)
                                    ELSE Updated(t, battery[t.dev]),
                  !.adds = NewBinding(t),
                  !.logged = @ \cup Logs(t),
                  !.pc = AfterWrite(t)])

-----------------------------------------------------------------------------

BindStep(x)   == NotYetBound(x) \/ CountsBindings(x) \/ BindReads(x)
UnbindStep(x) == FindsBinding(x) \/ DeletesBinding(x) \/ CountsRemaining(x) \/ UnbindReads(x)
BatchStep(x)  == BatchReads(x) \/ BatchEnds(x)

Next ==
    \E x \in Txs :
        \/ Bind(x)
        \/ Unbind(x)
        \/ ForceUnbind(x)
        \/ Batch(x)
        \/ BindStep(x)
        \/ UnbindStep(x)
        \/ BatchStep(x)
        \/ WritesBattery(x)
        \/ Commits(x)
        \/ RollsBack(x)

Spec == Init /\ [][Next]_vars

-----------------------------------------------------------------------------
(* Properties. None of these operations locks what it reads, so most of    *)
(* them promise something only as long as no transaction commits over a    *)
(* commit that came after its reads: raced names the devices where one did.*)

\* Every variable holds a value of its type.
TypeOK ==
    /\ battery \in [Devices -> Row \cup {NoRow}]
    /\ bindings \subseteq Binding
    /\ tx \in [Txs -> Tx]
    /\ begun \in 0..MaxBegun
    /\ raced \subseteq Devices

\* A device has one owner at most, and no user is bound to it twice, unless two
\* requests raced: is_owner is given to the first binding and never taken over.
OneOwner ==
    \A d \in Devices \ raced :
        \A b, c \in BindingsOf(d) : b # c => /\ ~(b.owner /\ c.owner)
                                               /\ b.user # c.user

\* The battery is active exactly while some user is bound, unless requests raced,
\* and in the status USER only then, whatever dealers did to it in between.
ActiveIffBound ==
    \A d \in Devices \ raced :
        IF BindingsOf(d) = {}
        THEN battery[d] = NoRow \/ (battery[d].act = "INACTIVE" /\ battery[d].status # "USER")
        ELSE battery[d] # NoRow /\ battery[d].act = "ACTIVE"

\* No operation takes a device from the organisation that owns it, unless a bind
\* read the owner before another one set it.
OrgIsKept ==
    [][\A d \in Devices :
           battery[d] # NoRow /\ battery[d].org # None /\ d \notin raced'
               => battery'[d].org = battery[d].org]_vars

CommitStep(x) == tx[x].pc = "commit" /\ tx'[x].pc = "idle" /\ battery' # battery

\* The transfer log tells the truth: the dealer it names as the previous one is
\* the dealer the transfer replaced, unless the transfer raced.
LogTellsThePast ==
    [][\A x \in Txs : CommitStep(x) =>
           \A e \in tx[x].logged : battery[e[1]].dealer = e[2] \/ e[1] \in raced']_vars

\* The comment of UnbindDevice: when no other binding of the device exists, its
\* activation is reset (it does not hold when two users unbind at once).
ResetWhenUnbound ==
    \A d \in Devices :
        BindingsOf(d) = {} /\ (\A x \in Txs : tx[x].pc = "idle")
            => battery[d] = NoRow \/ battery[d].act = "INACTIVE"

=============================================================================
