------------------------------ MODULE Startup ------------------------------
(***************************************************************************)
(* The instances of the IAM service starting: the administrator            *)
(* (biz/admin_initializer.go), the signing key and the OAuth clients       *)
(* (oidc/initializer.go), in the order of startup/initializer.go, before   *)
(* the instance serves.  Each step is a statement or a transaction on the  *)
(* database the instances share, or a write to OpenFGA.  An instance fails *)
(* or crashes at any step and starts again, perhaps with another           *)
(* configuration, while others serve and people register.                  *)
(*                                                                         *)
(* The configured address matters in two forms, as it is spelled and case  *)
(* folded.  A client's row is its secret and the rest of its settings.     *)
(* "active" stands for active and verified: the administrator is created   *)
(* so, before anybody can register.                                        *)
(***************************************************************************)
EXTENDS Naturals, FiniteSets, Functions

CONSTANTS
    Instances,
    Configs,      \* each with a signing key and clients
    Clients,      \* IDs
    Secrets,      \* of a client
    Rests,        \* what else is configured of it
    Keys,         \* signing keys
    Configured,   \* bootstrap_admin_email
    Canonical,    \* the same, case folded
    Person,       \* who registers with that address
    MaxCrashes,   \* bound on crashes and errors
    None

Statuses    == {"pending", "active", "disabled"}
Identifiers == {Configured, Canonical}
Owners      == Instances \cup {Person}
Users       == [owner : Owners, status : Statuses]
Settings    == [secret : Secrets, rest : Rests]

ASSUME ConstantsAssumption ==
    /\ Configs \subseteq [key : Keys, clients : UNION {[S -> Settings] : S \in SUBSET Clients}]
    /\ MaxCrashes \in Nat
    /\ Person \notin Instances
    /\ None \notin Owners \cup Users \cup Configs \cup Clients \cup Settings

VARIABLES
    users,        \* by login identifier: who created the user, and its state
    granted,      \* users with the admin relation in OpenFGA
    keys,         \* table of signing keys
    clients,      \* table of clients
    pc,           \* what an instance does next
    config,       \* of an instance
    admin,        \* the administrator an instance has found or created
    todo,         \* clients it has yet to reconcile
    current,      \* client it reconciles
    crashes,
    logged,       \* history: instances that logged the password of the user they created
    interrupted,  \* history: instances that stopped before they served
    disturbed     \* history: instances whose clients others with another configuration wrote since

tables  == <<users, granted, keys, clients>>
process == <<config, admin, todo, current>>
history == <<logged, interrupted, disturbed>>
vars    == <<tables, pc, process, crashes, history>>

-----------------------------------------------------------------------------
Steps ==
    {"findAdmin", "createAdmin", "findAgain", "log", "grant", "findKey", "seedKey",
     "findClient", "createClient", "updateClient", "deleteClients"}

TypeOK ==
    /\ users \in [Identifiers -> Users \cup {None}]
    /\ granted \in SUBSET Owners
    /\ keys \in SUBSET Keys
    /\ clients \in [Clients -> Settings \cup {None}]
    /\ pc \in [Instances -> {"off", "serving"} \cup Steps]
    /\ config \in [Instances -> Configs \cup {None}]
    /\ admin \in [Instances -> Owners \cup {None}]
    /\ todo \in [Instances -> SUBSET Clients]
    /\ current \in [Instances -> Clients \cup {None}]
    /\ crashes \in 0 .. MaxCrashes
    /\ logged \in SUBSET Instances
    /\ interrupted \in SUBSET Instances
    /\ disturbed \in SUBSET Instances

Init ==
    /\ users = [e \in Identifiers |-> None]
    /\ granted = {}
    /\ keys = {}
    /\ clients = [c \in Clients |-> None]
    /\ pc = [i \in Instances |-> "off"]
    /\ config = [i \in Instances |-> None]
    /\ admin = [i \in Instances |-> None]
    /\ todo = [i \in Instances |-> {}]
    /\ current = [i \in Instances |-> None]
    /\ crashes = 0
    /\ logged = {}
    /\ interrupted = {}
    /\ disturbed = {}

Goto(i, step) == pc' = [pc EXCEPT ![i] = step]

\* The start fails: the process ends.
Abort(i) == Goto(i, "off") /\ interrupted' = interrupted \cup {i}

Administrator(i) == [owner |-> i, status |-> "active"]

ConfiguredClients(i) == DOMAIN config[i].clients

\* The row the configuration of i asks for.
Wanted(i, c) == config[i].clients[c]

-----------------------------------------------------------------------------
Start(i) ==
    /\ pc[i] = "off"
    /\ \E cfg \in Configs :
         /\ config' = [config EXCEPT ![i] = cfg]
         /\ todo' = [todo EXCEPT ![i] = DOMAIN cfg.clients]
    /\ Goto(i, "findAdmin")
    /\ admin' = [admin EXCEPT ![i] = None]
    /\ disturbed' = disturbed \ {i}
    /\ UNCHANGED <<tables, current, crashes, logged, interrupted>>

(* The administrator.                                                       *)

\* The canonical and the display value of the configured address.
NormalizeEmail == <<Canonical, Configured>>

\* Initialize takes the second value for the canonical one, so that the administrator's login
\* identifier is the address as it is spelled, which Login never looks up.
canonicalEmail == NormalizeEmail[2]

FindAdmin(i) ==
    /\ pc[i] = "findAdmin"
    /\ IF users[canonicalEmail] = None
       THEN Goto(i, "createAdmin") /\ UNCHANGED <<admin, interrupted>>
       ELSE IF users[canonicalEmail].status = "active"
       THEN /\ admin' = [admin EXCEPT ![i] = users[canonicalEmail].owner]
            /\ Goto(i, "grant")
            /\ UNCHANGED interrupted
       ELSE Abort(i) /\ UNCHANGED admin
    /\ UNCHANGED <<tables, config, todo, current, crashes, logged, disturbed>>

\* Mutant: a user created by another instance is not looked up again.
CreateAdminRegardless(i) ==
    /\ pc[i] = "createAdmin"
    /\ admin' = [admin EXCEPT ![i] = i]
    /\ IF users[canonicalEmail] = None
       THEN /\ users' = [users EXCEPT ![canonicalEmail] = Administrator(i)]
            /\ Goto(i, "log")
       ELSE Goto(i, "grant") /\ UNCHANGED users
    /\ UNCHANGED <<granted, keys, clients, config, todo, current, crashes, history>>

\* CreateInitialAdmin: the unique index on the identifier lets one instance, or person, win.
CreateAdmin(i) ==
    /\ pc[i] = "createAdmin"
    /\ IF users[canonicalEmail] = None
       THEN /\ users' = [users EXCEPT ![canonicalEmail] = Administrator(i)]
            /\ admin' = [admin EXCEPT ![i] = i]
            /\ Goto(i, "log")
       ELSE Goto(i, "findAgain") /\ UNCHANGED <<users, admin>>
    /\ UNCHANGED <<granted, keys, clients, config, todo, current, crashes, history>>

\* The user that was created concurrently is taken as it is.
FindAgain(i) ==
    /\ pc[i] = "findAgain"
    /\ admin' = [admin EXCEPT ![i] = users[canonicalEmail].owner]
    /\ Goto(i, "grant")
    /\ UNCHANGED <<tables, config, todo, current, crashes, history>>

\* Mutant: a password of which the log says nothing.
ForgetPassword(i) ==
    /\ pc[i] = "log"
    /\ Goto(i, "grant")
    /\ UNCHANGED <<tables, process, crashes, history>>

LogPassword(i) ==
    /\ pc[i] = "log"
    /\ logged' = logged \cup {i}
    /\ Goto(i, "grant")
    /\ UNCHANGED <<tables, process, crashes, interrupted, disturbed>>

\* Mutant: the relation is written only by who created the user.
GrantOwn(i) ==
    /\ pc[i] = "grant"
    /\ granted' = granted \cup ({admin[i]} \cap {i})
    /\ Goto(i, "findKey")
    /\ UNCHANGED <<users, keys, clients, process, crashes, history>>

\* EnsurePlatformAdmin, on every start.
Grant(i) ==
    /\ pc[i] = "grant"
    /\ granted' = granted \cup {admin[i]}
    /\ Goto(i, "findKey")
    /\ UNCHANGED <<users, keys, clients, process, crashes, history>>

-----------------------------------------------------------------------------
(* reconcileSigningKey.                                                     *)

\* Mutant: the key is seeded whether it is there or not.
SeedEveryTime(i) ==
    /\ pc[i] = "findKey"
    /\ Goto(i, "seedKey")
    /\ UNCHANGED <<tables, process, crashes, history>>

\* That the stored key is not active, or of other metadata, is refused too; nothing in the code
\* retires a key or changes one.
FindKey(i) ==
    /\ pc[i] = "findKey"
    /\ Goto(i, IF config[i].key \in keys THEN "findClient" ELSE "seedKey")
    /\ UNCHANGED <<tables, process, crashes, history>>

\* Another instance may have seeded the same key: its ID is taken.
SeedKey(i) ==
    /\ pc[i] = "seedKey"
    /\ IF config[i].key \in keys THEN Abort(i)
       ELSE Goto(i, "findClient") /\ UNCHANGED interrupted
    /\ keys' = keys \cup {config[i].key}
    /\ UNCHANGED <<users, granted, clients, process, crashes, logged, disturbed>>

-----------------------------------------------------------------------------
(* reconcileClient, for one client after the other, and the deletion.       *)

\* Instances with another configuration, which see the tables change under them.
Disturb(i) ==
    disturbed' = disturbed \cup {j \in Instances : pc[j] # "off" /\ config[j] # config[i]}

Reconciled(i) ==
    /\ todo' = [todo EXCEPT ![i] = @ \ {current[i]}]
    /\ Goto(i, "findClient")

\* The next client, or the deletion of those no longer configured.  A secret cannot change.
FindClient(i) ==
    /\ pc[i] = "findClient"
    /\ \/ /\ todo[i] = {}
          /\ Goto(i, "deleteClients")
          /\ UNCHANGED <<current, interrupted>>
       \/ \E c \in todo[i] :
            /\ current' = [current EXCEPT ![i] = c]
            /\ IF clients[c] = None
               THEN Goto(i, "createClient") /\ UNCHANGED interrupted
               ELSE IF clients[c].secret = Wanted(i, c).secret
               THEN Goto(i, "updateClient") /\ UNCHANGED interrupted
               ELSE Abort(i)
    /\ UNCHANGED <<tables, config, admin, todo, crashes, logged, disturbed>>

CreateClient(i) ==
    /\ pc[i] = "createClient"
    /\ IF clients[current[i]] = None
       THEN /\ clients' = [clients EXCEPT ![current[i]] = Wanted(i, current[i])]
            /\ Reconciled(i)
            /\ Disturb(i)
            /\ UNCHANGED interrupted
       ELSE Abort(i) /\ UNCHANGED <<clients, todo, disturbed>>
    /\ UNCHANGED <<users, granted, keys, config, admin, current, crashes, logged>>

\* Mutant: a client that exists is left as it is.
KeepClient(i) ==
    /\ pc[i] = "updateClient"
    /\ Reconciled(i)
    /\ UNCHANGED <<tables, config, admin, current, crashes, history>>

\* The secret is not written, nor looked at again; the row may be gone.
UpdateClient(i) ==
    /\ pc[i] = "updateClient"
    /\ IF clients[current[i]] # None
       THEN /\ clients' = [clients EXCEPT ![current[i]].rest = Wanted(i, current[i]).rest]
            /\ Reconciled(i)
            /\ Disturb(i)
            /\ UNCHANGED interrupted
       ELSE Abort(i) /\ UNCHANGED <<clients, todo, disturbed>>
    /\ UNCHANGED <<users, granted, keys, config, admin, current, crashes, logged>>

DeleteClients(i) ==
    /\ pc[i] = "deleteClients"
    /\ clients' = [c \in Clients |-> IF c \in ConfiguredClients(i) THEN clients[c] ELSE None]
    /\ Goto(i, "serving")
    /\ Disturb(i)
    /\ UNCHANGED <<users, granted, keys, process, crashes, logged, interrupted>>

-----------------------------------------------------------------------------
(* Failures, and what goes on meanwhile.                                    *)

\* A crash, or an error of the database or of OpenFGA, at any step; an answer that is lost after
\* the write is a crash after the step.
Crash(i) ==
    /\ pc[i] # "off"
    /\ crashes < MaxCrashes
    /\ crashes' = crashes + 1
    /\ Goto(i, "off")
    /\ interrupted' = IF pc[i] = "serving" THEN interrupted ELSE interrupted \cup {i}
    /\ UNCHANGED <<tables, process, logged, disturbed>>

\* CreatePendingUser, at an instance that serves: it looks the address up case folded.  As all
\* configurations have one bootstrap address, the administrator exists by then.
Register ==
    /\ \E i \in Instances : pc[i] = "serving"
    /\ users[Canonical] = None
    /\ users' = [users EXCEPT ![Canonical] = [owner |-> Person, status |-> "pending"]]
    /\ UNCHANGED <<granted, keys, clients, pc, process, crashes, history>>

\* DisableUser and EnableUser, of the administrator; no start reads anybody else's status.
SetStatus ==
    /\ \E i \in Instances : pc[i] = "serving"
    /\ users[canonicalEmail] # None
    /\ users' = [users EXCEPT ![canonicalEmail].status = IF @ = "disabled" THEN "active" ELSE "disabled"]
    /\ UNCHANGED <<granted, keys, clients, pc, process, crashes, history>>

-----------------------------------------------------------------------------
Step(i) ==
    \/ FindAdmin(i)
    \/ CreateAdmin(i)
    \/ FindAgain(i)
    \/ LogPassword(i)
    \/ Grant(i)
    \/ FindKey(i)
    \/ SeedKey(i)
    \/ FindClient(i)
    \/ CreateClient(i)
    \/ UpdateClient(i)
    \/ DeleteClients(i)

Next ==
    \/ \E i \in Instances : Start(i) \/ Step(i) \/ Crash(i)
    \/ Register
    \/ SetStatus

Spec == Init /\ [][Next]_vars

\* A process that runs goes on, and one that ended is started again.
FairSpec == Spec /\ \A i \in Instances : WF_vars(Start(i) \/ Step(i))

-----------------------------------------------------------------------------
(* Properties.                                                              *)

owner == IF users[canonicalEmail] = None THEN None ELSE users[canonicalEmail].owner

\* Initialize runs before the servers start: an instance only serves when the configured
\* administrator exists and has the admin relation, whoever created it and whatever start was
\* cut short between the two, and when every instance publishes the key it signs with.
ReadyWhenServing ==
    \A i \in Instances :
        pc[i] = "serving" =>
            /\ owner # None
            /\ owner \in granted
            /\ config[i].key \in keys

\* The relation is granted on every start and never taken back: it only ever goes to the user at
\* the configured identifier, so that instances racing to create it leave one administrator, and
\* nobody who registered with that address is one.
OneAdministrator ==
    /\ Cardinality(granted) <= 1
    /\ granted # {} => granted = {owner}
    /\ Person \notin granted

\* "emits the initial password once at startup" (create, Initialize): the password of the
\* administrator that was created is in the log when its instance serves, no other is, and
\* nobody has it only if the instance that created it stopped in some start before it served, be
\* it between the commit and the log or elsewhere (interrupted).
PasswordHandedOver ==
    /\ logged \subseteq {owner}
    /\ owner \in Instances \ logged => pc[owner] = "log" \/ owner \in interrupted

\* Reconciling clients is not a transaction: the table is what the configuration of a serving
\* instance asks for, deleted clients included, unless instances with another one wrote to it
\* after this one began to start.
ServesItsClients ==
    \A i \in Instances :
        pc[i] = "serving" /\ i \notin disturbed =>
            \A c \in Clients :
                clients[c] = IF c \in ConfiguredClients(i) THEN Wanted(i, c) ELSE None

\* What makes every start fail: an administrator that is not active, and a secret that is not
\* the one in the table.
AdminIsUnusable == users[canonicalEmail] # None /\ users[canonicalEmail].status # "active"

SecretConflicts(i) ==
    /\ config[i] # None
    /\ \E c \in ConfiguredClients(i) : clients[c] # None /\ clients[c].secret # Wanted(i, c).secret

\* Instances that start together make each other fail (SeedKey, CreateClient, UpdateClient); with
\* restarts all of them serve in the end, unless one of the two reasons keeps coming back.
StartsServe ==
    \A i \in Instances :
        \/ <>[](pc[i] = "serving")
        \/ []<>AdminIsUnusable
        \/ []<>SecretConflicts(i)

-----------------------------------------------------------------------------
(* What makes the invariants inductive.                                     *)

Reconciling == {"findClient", "createClient", "updateClient", "deleteClients", "serving"}

\* What a start that got so far has seen to.
AdminInv ==
    /\ owner # Person
    /\ owner = None => logged = {}
    /\ \A i \in Instances :
         /\ pc[i] \notin {"off", "findAdmin", "createAdmin"} => owner # None
         /\ pc[i] \in {"log", "grant"} => admin[i] = owner
         /\ pc[i] = "log" => admin[i] = i
         /\ pc[i] \in {"findKey", "seedKey"} \cup Reconciling => owner \in granted
         /\ pc[i] \in Reconciling => config[i].key \in keys

\* How far the clients are reconciled, as long as only instances with the same configuration
\* write to the table.
Progress(i) ==
    /\ config[i] \in Configs
    /\ todo[i] \subseteq ConfiguredClients(i)
    /\ pc[i] \notin Reconciling => todo[i] = ConfiguredClients(i)
    /\ pc[i] \in {"createClient", "updateClient"} => current[i] \in todo[i]
    /\ pc[i] \in {"deleteClients", "serving"} => todo[i] = {}
    /\ i \notin disturbed =>
         /\ \A c \in ConfiguredClients(i) \ todo[i] : clients[c] = Wanted(i, c)
         /\ pc[i] = "updateClient" =>
              /\ clients[current[i]] # None
              /\ clients[current[i]].secret = Wanted(i, current[i]).secret
         /\ pc[i] = "serving" => \A c \in Clients \ ConfiguredClients(i) : clients[c] = None

ClientInv == \A i \in Instances : pc[i] # "off" => Progress(i)

IInv ==
    /\ TypeOK
    /\ AdminInv
    /\ ClientInv
    /\ OneAdministrator
    /\ PasswordHandedOver
=============================================================================
