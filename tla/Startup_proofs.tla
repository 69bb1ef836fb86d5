--------------------------- MODULE Startup_proofs ---------------------------
(***************************************************************************)
(* Proofs about the start of the IAM service, for any number of instances, *)
(* configurations, clients and failures.                                   *)
(***************************************************************************)
EXTENDS Startup, FiniteSetTheorems, TLAPS

-----------------------------------------------------------------------------
(* Configurations and the administrator.                                    *)

\* What a configuration asks for is a set of clients with settings, and a key.
LEMMA ConfigFacts ==
    ASSUME NEW cfg \in Configs
    PROVE  /\ cfg.key \in Keys
           /\ DOMAIN cfg.clients \subseteq Clients
           /\ \A c \in DOMAIN cfg.clients : cfg.clients[c] \in Settings
<1>1. cfg \in [key : Keys, clients : UNION {[S -> Settings] : S \in SUBSET Clients}]
  BY ConstantsAssumption
<1>2. cfg.key \in Keys /\ cfg.clients \in UNION {[S -> Settings] : S \in SUBSET Clients}
  BY <1>1
<1>3. PICK S \in SUBSET Clients : cfg.clients \in [S -> Settings]
  BY <1>2
<1> QED BY <1>2, <1>3

\* The owner of the configured identifier is who created its user.
LEMMA OwnerFacts ==
    ASSUME TypeOK
    PROVE  /\ canonicalEmail \in Identifiers
           /\ owner \in Owners \cup {None}
           /\ None \notin Owners
           /\ owner = None <=> users[canonicalEmail] = None
<1>1. canonicalEmail \in Identifiers
  BY DEF canonicalEmail, NormalizeEmail, Identifiers
<1>2. None \notin Owners
  BY ConstantsAssumption DEF Owners
<1>3. users[canonicalEmail] # None => users[canonicalEmail].owner \in Owners
  BY <1>1 DEF TypeOK, Users
<1> QED BY <1>1, <1>2, <1>3 DEF owner

\* The user at the configured identifier is one that its owner created.
LEMMA OwnerOfCreated ==
    ASSUME TypeOK, NEW i \in Instances, owner = None,
           users' = [users EXCEPT ![canonicalEmail] = Administrator(i)]
    PROVE  owner' = i /\ users' \in [Identifiers -> Users \cup {None}]
<1>1. Administrator(i) \in Users /\ Administrator(i).owner = i
  BY DEF Administrator, Users, Owners, Statuses
<1>2. Administrator(i) # None
  <2>1. None \notin Users
    BY ConstantsAssumption
  <2> QED BY <1>1, <2>1
<1>3. canonicalEmail \in Identifiers
  BY OwnerFacts
<1>4. users'[canonicalEmail] = Administrator(i)
  BY <1>3 DEF TypeOK
<1>5. canonicalEmail' = canonicalEmail
  BY DEF canonicalEmail, NormalizeEmail
<1> QED BY <1>1, <1>2, <1>3, <1>4, <1>5 DEF owner, TypeOK

\* The configuration of an instance that runs.
LEMMA RunningConfig ==
    ASSUME ClientInv, NEW i \in Instances, pc[i] # "off"
    PROVE  /\ config[i] \in Configs
           /\ config[i].key \in Keys
           /\ ConfiguredClients(i) \subseteq Clients
           /\ \A c \in ConfiguredClients(i) : Wanted(i, c) \in Settings
           /\ None \notin Settings
<1>1. config[i] \in Configs
  BY DEF ClientInv, Progress
<1>2. None \notin Settings
  BY ConstantsAssumption
<1> QED BY <1>1, <1>2, ConfigFacts DEF ConfiguredClients, Wanted

\* What an instance is reconciling is one of its clients.
LEMMA CurrentClient ==
    ASSUME TypeOK, ClientInv, NEW i \in Instances, pc[i] \in {"createClient", "updateClient"}
    PROVE  /\ current[i] \in todo[i]
           /\ current[i] \in ConfiguredClients(i)
           /\ current[i] \in Clients
           /\ Wanted(i, current[i]) \in Settings
<1>1. pc[i] # "off"
  OBVIOUS
<1>2. current[i] \in todo[i] /\ todo[i] \subseteq ConfiguredClients(i)
  BY <1>1 DEF ClientInv, Progress
<1> QED BY <1>1, <1>2, RunningConfig

-----------------------------------------------------------------------------
(* Types.                                                                   *)

LEMMA TypeStep ==
    ASSUME IInv, [Next]_vars
    PROVE  TypeOK'
<1> USE DEF tables, process, history
<1>t. TypeOK /\ AdminInv /\ ClientInv
  BY DEF IInv
<1>1. ASSUME NEW i \in Instances, Start(i) PROVE TypeOK'
  <2>1. PICK cfg \in Configs :
            config' = [config EXCEPT ![i] = cfg] /\ todo' = [todo EXCEPT ![i] = DOMAIN cfg.clients]
    BY <1>1 DEF Start
  <2>2. DOMAIN cfg.clients \subseteq Clients
    BY ConfigFacts
  <2>3. disturbed' \in SUBSET Instances
    BY <1>1, <1>t DEF Start, TypeOK
  <2>4. /\ pc' = [pc EXCEPT ![i] = "findAdmin"] /\ admin' = [admin EXCEPT ![i] = None]
        /\ UNCHANGED <<users, granted, keys, clients, current, crashes, logged, interrupted>>
    BY <1>1 DEF Start, Goto
  <2> QED BY <1>t, <2>1, <2>2, <2>3, <2>4 DEF TypeOK, Steps
<1>2. ASSUME NEW i \in Instances, FindAdmin(i) PROVE TypeOK'
  <2>1. owner # None => owner \in Owners
    BY <1>t, OwnerFacts
  <2>2. users[canonicalEmail] # None => users[canonicalEmail].owner = owner
    BY DEF owner
  <2> QED BY <1>2, <1>t, <2>1, <2>2, OwnerFacts DEF FindAdmin, TypeOK, Goto, Abort, Steps
<1>3. ASSUME NEW i \in Instances, CreateAdmin(i) PROVE TypeOK'
  <2>1. CASE users[canonicalEmail] = None
    <3>1. users' \in [Identifiers -> Users \cup {None}]
      BY <1>3, <1>t, <2>1, OwnerFacts, OwnerOfCreated DEF CreateAdmin
    <3>2. /\ admin' = [admin EXCEPT ![i] = i] /\ pc' = [pc EXCEPT ![i] = "log"]
          /\ UNCHANGED <<granted, keys, clients, config, todo, current, crashes, history>>
      BY <1>3, <2>1 DEF CreateAdmin, Goto
    <3> QED BY <1>t, <3>1, <3>2 DEF TypeOK, Steps, Owners
  <2>2. CASE users[canonicalEmail] # None
    BY <1>3, <1>t, <2>2 DEF CreateAdmin, TypeOK, Goto, Steps
  <2> QED BY <2>1, <2>2
<1>4. ASSUME NEW i \in Instances, FindAgain(i) PROVE TypeOK'
  <2>1. owner # None
    BY <1>4, <1>t DEF FindAgain, AdminInv
  <2>2. owner \in Owners /\ users[canonicalEmail].owner = owner
    BY <1>t, <2>1, OwnerFacts DEF owner
  <2> QED BY <1>4, <1>t, <2>2 DEF FindAgain, TypeOK, Goto, Steps
<1>5. ASSUME NEW i \in Instances, LogPassword(i) PROVE TypeOK'
  BY <1>5, <1>t DEF LogPassword, TypeOK, Goto, Steps
<1>6. ASSUME NEW i \in Instances, Grant(i) PROVE TypeOK'
  <2>1. owner # None /\ admin[i] = owner
    BY <1>6, <1>t DEF Grant, AdminInv
  <2>2. admin[i] \in Owners
    BY <1>t, <2>1, OwnerFacts
  <2> QED BY <1>6, <1>t, <2>2 DEF Grant, TypeOK, Goto, Steps
<1>7. ASSUME NEW i \in Instances, FindKey(i) PROVE TypeOK'
  BY <1>7, <1>t DEF FindKey, TypeOK, Goto, Steps
<1>8. ASSUME NEW i \in Instances, SeedKey(i) PROVE TypeOK'
  <2>1. config[i].key \in Keys
    BY <1>8, <1>t, RunningConfig DEF SeedKey
  <2> QED BY <1>8, <1>t, <2>1 DEF SeedKey, TypeOK, Goto, Abort, Steps
<1>9. ASSUME NEW i \in Instances, FindClient(i) PROVE TypeOK'
  <2>1. todo[i] \subseteq Clients
    BY <1>t DEF TypeOK
  <2>2. CASE todo[i] = {} /\ Goto(i, "deleteClients") /\ UNCHANGED <<current, interrupted>>
    BY <1>9, <1>t, <2>2 DEF FindClient, TypeOK, Goto, Steps
  <2>3. ASSUME NEW c \in todo[i],
               current' = [current EXCEPT ![i] = c],
               \/ Goto(i, "createClient") /\ UNCHANGED interrupted
               \/ Goto(i, "updateClient") /\ UNCHANGED interrupted
               \/ Abort(i)
        PROVE  TypeOK'
    BY <1>9, <1>t, <2>1, <2>3 DEF FindClient, TypeOK, Goto, Abort, Steps
  <2> QED BY <1>9, <2>2, <2>3 DEF FindClient
<1>10. ASSUME NEW i \in Instances, CreateClient(i) PROVE TypeOK'
  <2>1. current[i] \in Clients /\ Wanted(i, current[i]) \in Settings
    BY <1>10, <1>t, CurrentClient DEF CreateClient
  <2> QED BY <1>10, <1>t, <2>1 DEF CreateClient, TypeOK, Goto, Abort, Reconciled, Disturb, Steps
<1>11. ASSUME NEW i \in Instances, UpdateClient(i) PROVE TypeOK'
  <2>1. current[i] \in Clients /\ Wanted(i, current[i]) \in Settings
    BY <1>11, <1>t, CurrentClient DEF UpdateClient
  <2>2. CASE clients[current[i]] # None
    <3>1. clients[current[i]] \in Settings
      BY <1>t, <2>1, <2>2 DEF TypeOK
    <3>2. clients' \in [Clients -> Settings \cup {None}]
      <4>1. [clients[current[i]] EXCEPT !.rest = Wanted(i, current[i]).rest] \in Settings
        BY <2>1, <3>1 DEF Settings
      <4>2. clients' = [clients EXCEPT ![current[i]] = [clients[current[i]] EXCEPT !.rest = Wanted(i, current[i]).rest]]
        BY <1>11, <2>2 DEF UpdateClient
      <4> QED BY <1>t, <4>1, <4>2 DEF TypeOK
    <3>3. /\ pc' = [pc EXCEPT ![i] = "findClient"] /\ todo' = [todo EXCEPT ![i] = todo[i] \ {current[i]}]
          /\ disturbed' = disturbed \cup {j \in Instances : pc[j] # "off" /\ config[j] # config[i]}
          /\ UNCHANGED <<users, granted, keys, config, admin, current, crashes, logged, interrupted>>
      BY <1>11, <2>2 DEF UpdateClient, Reconciled, Goto, Disturb
    <3> QED BY <1>t, <3>2, <3>3 DEF TypeOK, Steps
  <2>3. CASE clients[current[i]] = None
    BY <1>11, <1>t, <2>3 DEF UpdateClient, TypeOK, Goto, Abort
  <2> QED BY <2>2, <2>3
<1>12. ASSUME NEW i \in Instances, DeleteClients(i) PROVE TypeOK'
  BY <1>12, <1>t DEF DeleteClients, TypeOK, Goto, Disturb
<1>13. ASSUME NEW i \in Instances, Crash(i) PROVE TypeOK'
  <2>1. crashes' \in 0 .. MaxCrashes
    BY <1>13, <1>t, ConstantsAssumption DEF Crash, TypeOK
  <2> QED BY <1>13, <1>t, <2>1 DEF Crash, TypeOK, Goto
<1>14. CASE Register
  <2>1. [owner |-> Person, status |-> "pending"] \in Users
    BY DEF Users, Owners, Statuses
  <2> QED BY <1>14, <1>t, <2>1 DEF Register, TypeOK
<1>15. CASE SetStatus
  <2>1. users[canonicalEmail] \in Users /\ canonicalEmail \in Identifiers
    BY <1>15, <1>t, OwnerFacts DEF SetStatus, TypeOK
  <2>2. PICK new \in {"active", "disabled"} : users' = [users EXCEPT ![canonicalEmail] = [users[canonicalEmail] EXCEPT !.status = new]]
    BY <1>15 DEF SetStatus
  <2>3. [users[canonicalEmail] EXCEPT !.status = new] \in Users
    BY <2>1 DEF Users, Statuses
  <2>4. users' \in [Identifiers -> Users \cup {None}]
    BY <1>t, <2>2, <2>3 DEF TypeOK
  <2> QED BY <1>15, <1>t, <2>4 DEF SetStatus, TypeOK
<1>16. CASE UNCHANGED vars
  BY <1>16, <1>t DEF vars, TypeOK
<1> QED BY <1>1, <1>2, <1>3, <1>4, <1>5, <1>6, <1>7, <1>8, <1>9, <1>10, <1>11, <1>12, <1>13,
           <1>14, <1>15, <1>16 DEF Next, Step

-----------------------------------------------------------------------------
(* The administrator.                                                       *)

AdminSafe == AdminInv /\ OneAdministrator /\ PasswordHandedOver

\* A step of an instance that writes neither users, relations nor the log keeps what it had seen
\* to, when it only goes on to a step that needs no more.
LEMMA AdminKept ==
    ASSUME TypeOK, AdminSafe, NEW i \in Instances,
           UNCHANGED <<users, granted, logged>>,
           keys \subseteq keys', interrupted \subseteq interrupted',
           \A j \in Instances \ {i} : UNCHANGED <<pc[j], admin[j], config[j]>>,
           pc[i] # "log" \/ i \in interrupted',
           pc'[i] \notin {"off", "findAdmin", "createAdmin"} => owner # None,
           pc'[i] # "log",
           pc'[i] = "grant" => admin'[i] = owner,
           pc'[i] \in {"findKey", "seedKey"} \cup Reconciling => owner \in granted,
           pc'[i] \in Reconciling => config'[i].key \in keys'
    PROVE  AdminSafe'
<1>1. owner' = owner
  BY DEF owner, canonicalEmail, NormalizeEmail
<1>2. AdminInv'
  <2> SUFFICES ASSUME NEW j \in Instances
               PROVE  /\ pc'[j] \notin {"off", "findAdmin", "createAdmin"} => owner # None
                      /\ pc'[j] \in {"log", "grant"} => admin'[j] = owner
                      /\ pc'[j] = "log" => admin'[j] = j
                      /\ pc'[j] \in {"findKey", "seedKey"} \cup Reconciling => owner \in granted
                      /\ pc'[j] \in Reconciling => config'[j].key \in keys'
    BY <1>1 DEF AdminSafe, AdminInv, Reconciling
  <2>1. CASE j = i
    BY <2>1
  <2>2. CASE j # i
    BY <2>2 DEF AdminSafe, AdminInv
  <2> QED BY <2>1, <2>2
<1>3. OneAdministrator'
  BY <1>1 DEF AdminSafe, OneAdministrator
<1>4. PasswordHandedOver'
  BY <1>1 DEF AdminSafe, PasswordHandedOver
<1> QED BY <1>2, <1>3, <1>4 DEF AdminSafe

LEMMA AdminStep ==
    ASSUME IInv, [Next]_vars
    PROVE  AdminSafe'
<1> USE DEF tables, process, history
<1>t. TypeOK /\ AdminInv /\ ClientInv /\ AdminSafe
  BY DEF IInv, AdminSafe
<1>1. ASSUME NEW i \in Instances, Start(i) PROVE AdminSafe'
  <2>1. /\ UNCHANGED <<users, granted, logged, keys, interrupted>> /\ pc[i] = "off"
        /\ pc' = [pc EXCEPT ![i] = "findAdmin"] /\ admin' = [admin EXCEPT ![i] = None]
        /\ \E cfg \in Configs : config' = [config EXCEPT ![i] = cfg]
    BY <1>1 DEF Start, Goto
  <2>2. /\ \A j \in Instances \ {i} : pc'[j] = pc[j] /\ admin'[j] = admin[j] /\ config'[j] = config[j]
        /\ pc'[i] = "findAdmin"
    BY <1>t, <2>1 DEF TypeOK
  <2> QED BY <1>t, <2>1, <2>2, AdminKept DEF Reconciling
<1>2. ASSUME NEW i \in Instances, FindAdmin(i) PROVE AdminSafe'
  <2>1. /\ UNCHANGED <<users, granted, logged, keys, config>> /\ interrupted \subseteq interrupted'
        /\ pc[i] = "findAdmin"
        /\ \A j \in Instances \ {i} : pc'[j] = pc[j] /\ admin'[j] = admin[j]
        /\ pc'[i] \in {"off", "createAdmin"} \/ (pc'[i] = "grant" /\ admin'[i] = owner /\ owner # None)
    <3>1. CASE users[canonicalEmail] = None
      BY <1>2, <1>t, <3>1 DEF FindAdmin, Goto, TypeOK
    <3>2. CASE users[canonicalEmail] # None /\ users[canonicalEmail].status = "active"
      <4>1. owner = users[canonicalEmail].owner /\ owner # None
        BY <1>t, <3>2, OwnerFacts DEF owner
      <4> QED BY <1>2, <1>t, <3>2, <4>1 DEF FindAdmin, Goto, TypeOK
    <3>3. CASE users[canonicalEmail] # None /\ users[canonicalEmail].status # "active"
      BY <1>2, <1>t, <3>3 DEF FindAdmin, Goto, Abort, TypeOK
    <3> QED BY <3>1, <3>2, <3>3
  <2> QED BY <1>t, <2>1, AdminKept DEF Reconciling
<1>3. ASSUME NEW i \in Instances, CreateAdmin(i) PROVE AdminSafe'
  <2>1. CASE users[canonicalEmail] = None
    <3>1. /\ users' = [users EXCEPT ![canonicalEmail] = Administrator(i)]
          /\ admin' = [admin EXCEPT ![i] = i] /\ pc' = [pc EXCEPT ![i] = "log"]
          /\ UNCHANGED <<granted, keys, config, logged, interrupted>>
      BY <1>3, <2>1 DEF CreateAdmin, Goto
    <3>2. owner = None /\ owner' = i
      BY <1>t, <2>1, <3>1, OwnerFacts, OwnerOfCreated
    <3>3. logged = {} /\ \A j \in Instances : pc[j] \in {"off", "findAdmin", "createAdmin"}
      BY <1>t, <3>2 DEF AdminInv
    <3>4. granted = {}
      BY <1>t, <3>2, OwnerFacts DEF AdminSafe, OneAdministrator, TypeOK
    <3>5. i # None /\ i # Person
      BY ConstantsAssumption DEF Owners
    <3>6. pc'[i] = "log" /\ admin'[i] = i /\ \A j \in Instances \ {i} : pc'[j] = pc[j]
      BY <1>t, <3>1 DEF TypeOK
    <3>7. AdminInv'
      BY <3>2, <3>3, <3>5, <3>6 DEF AdminInv, Reconciling
    <3>8. OneAdministrator'
      BY <1>t, <3>1, <3>4, FS_EmptySet DEF OneAdministrator, AdminSafe
    <3>9. PasswordHandedOver'
      BY <3>1, <3>2, <3>3, <3>6 DEF PasswordHandedOver
    <3> QED BY <3>7, <3>8, <3>9 DEF AdminSafe
  <2>2. CASE users[canonicalEmail] # None
    <3>1. /\ UNCHANGED <<users, granted, logged, keys, config, admin, interrupted>>
          /\ pc[i] = "createAdmin" /\ pc' = [pc EXCEPT ![i] = "findAgain"]
      BY <1>3, <2>2 DEF CreateAdmin, Goto
    <3>2. pc'[i] = "findAgain" /\ \A j \in Instances \ {i} : pc'[j] = pc[j]
      BY <1>t, <3>1 DEF TypeOK
    <3>3. owner # None
      BY <1>t, <2>2, OwnerFacts
    <3> QED BY <1>t, <3>1, <3>2, <3>3, AdminKept DEF Reconciling
  <2> QED BY <2>1, <2>2
<1>4. ASSUME NEW i \in Instances, FindAgain(i) PROVE AdminSafe'
  <2>1. /\ UNCHANGED <<users, granted, logged, keys, config, interrupted>> /\ pc[i] = "findAgain"
        /\ pc' = [pc EXCEPT ![i] = "grant"]
        /\ admin' = [admin EXCEPT ![i] = users[canonicalEmail].owner]
    BY <1>4 DEF FindAgain, Goto
  <2>2. owner # None
    BY <1>t, <2>1 DEF AdminInv
  <2>3. owner = users[canonicalEmail].owner
    BY <2>2 DEF owner
  <2>4. /\ pc'[i] = "grant" /\ admin'[i] = owner
        /\ \A j \in Instances \ {i} : pc'[j] = pc[j] /\ admin'[j] = admin[j]
    BY <1>t, <2>1, <2>3 DEF TypeOK
  <2> QED BY <1>t, <2>1, <2>2, <2>4, AdminKept DEF Reconciling
<1>5. ASSUME NEW i \in Instances, LogPassword(i) PROVE AdminSafe'
  <2>1. /\ UNCHANGED <<users, granted, keys, config, admin, interrupted>> /\ pc[i] = "log"
        /\ pc' = [pc EXCEPT ![i] = "grant"] /\ logged' = logged \cup {i}
    BY <1>5 DEF LogPassword, Goto
  <2>2. owner' = owner
    BY <2>1 DEF owner, canonicalEmail, NormalizeEmail
  <2>3. admin[i] = i /\ owner = i /\ owner # None
    BY <1>t, <2>1 DEF AdminInv
  <2>4. pc'[i] = "grant" /\ \A j \in Instances \ {i} : pc'[j] = pc[j]
    BY <1>t, <2>1 DEF TypeOK
  <2>5. AdminInv'
    BY <1>t, <2>1, <2>2, <2>3, <2>4 DEF AdminInv, Reconciling
  <2>6. OneAdministrator' /\ PasswordHandedOver'
    BY <1>t, <2>1, <2>2, <2>3 DEF OneAdministrator, PasswordHandedOver, AdminSafe
  <2> QED BY <2>5, <2>6 DEF AdminSafe
<1>6. ASSUME NEW i \in Instances, Grant(i) PROVE AdminSafe'
  <2>1. /\ UNCHANGED <<users, keys, config, admin, logged, interrupted>> /\ pc[i] = "grant"
        /\ pc' = [pc EXCEPT ![i] = "findKey"] /\ granted' = granted \cup {admin[i]}
    BY <1>6 DEF Grant, Goto
  <2>2. owner' = owner
    BY <2>1 DEF owner, canonicalEmail, NormalizeEmail
  <2>3. admin[i] = owner /\ owner # None /\ owner # Person
    BY <1>t, <2>1 DEF AdminInv
  <2>4. pc'[i] = "findKey" /\ \A j \in Instances \ {i} : pc'[j] = pc[j]
    BY <1>t, <2>1 DEF TypeOK
  <2>5. granted' = {owner}
    BY <1>t, <2>1, <2>3 DEF OneAdministrator, AdminSafe
  <2>6. AdminInv'
    BY <1>t, <2>1, <2>2, <2>3, <2>4, <2>5 DEF AdminInv, Reconciling
  <2>7. Cardinality({owner}) = 1
    BY FS_Singleton
  <2>8. OneAdministrator'
    BY <2>2, <2>3, <2>5, <2>7 DEF OneAdministrator
  <2>9. PasswordHandedOver'
    BY <1>t, <2>1, <2>2, <2>4 DEF PasswordHandedOver, AdminSafe
  <2> QED BY <2>6, <2>8, <2>9 DEF AdminSafe
<1>7. ASSUME NEW i \in Instances, FindKey(i) PROVE AdminSafe'
  <2>1. /\ UNCHANGED <<users, granted, logged, keys, config, admin, interrupted>> /\ pc[i] = "findKey"
        /\ pc' = [pc EXCEPT ![i] = IF config[i].key \in keys THEN "findClient" ELSE "seedKey"]
    BY <1>7 DEF FindKey, Goto
  <2>2. /\ pc'[i] \in {"findClient", "seedKey"} /\ (pc'[i] = "findClient" => config[i].key \in keys)
        /\ \A j \in Instances \ {i} : pc'[j] = pc[j]
    BY <1>t, <2>1 DEF TypeOK
  <2>3. owner # None /\ owner \in granted
    BY <1>t, <2>1 DEF AdminInv
  <2> QED BY <1>t, <2>1, <2>2, <2>3, AdminKept DEF Reconciling
<1>8. ASSUME NEW i \in Instances, SeedKey(i) PROVE AdminSafe'
  <2>1. /\ UNCHANGED <<users, granted, logged, config, admin>> /\ pc[i] = "seedKey"
        /\ keys' = keys \cup {config[i].key} /\ interrupted \subseteq interrupted'
        /\ \E step \in {"off", "findClient"} : pc' = [pc EXCEPT ![i] = step]
    BY <1>8 DEF SeedKey, Goto, Abort
  <2>2. pc'[i] \in {"off", "findClient"} /\ \A j \in Instances \ {i} : pc'[j] = pc[j]
    BY <1>t, <2>1 DEF TypeOK
  <2>3. owner # None /\ owner \in granted
    BY <1>t, <2>1 DEF AdminInv
  <2>4. config'[i].key \in keys'
    BY <2>1
  <2> QED BY <1>t, <2>1, <2>2, <2>3, <2>4, AdminKept DEF Reconciling
<1>9. ASSUME NEW i \in Instances,
             FindClient(i) \/ CreateClient(i) \/ UpdateClient(i) \/ DeleteClients(i)
      PROVE  AdminSafe'
  <2>1. /\ UNCHANGED <<users, granted, logged, keys, config, admin>>
        /\ pc[i] \in Reconciling /\ interrupted \subseteq interrupted'
        /\ \E step \in {"off"} \cup Reconciling : pc' = [pc EXCEPT ![i] = step]
    <3>1. CASE FindClient(i)
      BY <3>1 DEF FindClient, Goto, Abort, Reconciling
    <3>2. CASE CreateClient(i)
      BY <3>2 DEF CreateClient, Goto, Abort, Reconciled, Reconciling
    <3>3. CASE UpdateClient(i)
      BY <3>3 DEF UpdateClient, Goto, Abort, Reconciled, Reconciling
    <3>4. CASE DeleteClients(i)
      BY <3>4 DEF DeleteClients, Goto, Reconciling
    <3> QED BY <1>9, <3>1, <3>2, <3>3, <3>4
  <2>2. pc'[i] \in {"off"} \cup Reconciling /\ \A j \in Instances \ {i} : pc'[j] = pc[j]
    BY <1>t, <2>1 DEF TypeOK
  <2>3. owner # None /\ owner \in granted /\ config[i].key \in keys
    BY <1>t, <2>1 DEF AdminInv, Reconciling
  <2> QED BY <1>t, <2>1, <2>2, <2>3, AdminKept DEF Reconciling
<1>10. ASSUME NEW i \in Instances, Crash(i) PROVE AdminSafe'
  <2>1. /\ UNCHANGED <<users, granted, logged, keys, config, admin>>
        /\ pc' = [pc EXCEPT ![i] = "off"] /\ interrupted \subseteq interrupted'
        /\ pc[i] = "log" => i \in interrupted'
    BY <1>10 DEF Crash, Goto
  <2>2. pc'[i] = "off" /\ \A j \in Instances \ {i} : pc'[j] = pc[j]
    BY <1>t, <2>1 DEF TypeOK
  <2> QED BY <1>t, <2>1, <2>2, AdminKept DEF Reconciling
<1>11. ASSUME UNCHANGED <<granted, keys, pc, config, admin, logged, interrupted>>, owner' = owner
       PROVE  AdminSafe'
  BY <1>t, <1>11 DEF AdminSafe, AdminInv, OneAdministrator, PasswordHandedOver
<1>12. CASE Register
  <2>1. owner # None
    BY <1>12, <1>t DEF Register, AdminInv
  <2>2. canonicalEmail # Canonical /\ canonicalEmail' = canonicalEmail
    BY <1>12, <1>t, <2>1, OwnerFacts DEF Register, canonicalEmail, NormalizeEmail
  <2>3. users'[canonicalEmail] = users[canonicalEmail]
    BY <1>12, <1>t, <2>2, OwnerFacts DEF Register, TypeOK
  <2>4. owner' = owner
    BY <2>2, <2>3 DEF owner
  <2> QED BY <1>11, <1>12, <2>4 DEF Register
<1>13. CASE SetStatus
  <2>1. users[canonicalEmail] \in Users /\ canonicalEmail \in Identifiers
    BY <1>13, <1>t, OwnerFacts DEF SetStatus, TypeOK
  <2>2. PICK new \in {"active", "disabled"} : users' = [users EXCEPT ![canonicalEmail] = [users[canonicalEmail] EXCEPT !.status = new]]
    BY <1>13 DEF SetStatus
  <2>3. users'[canonicalEmail] \in Users /\ users'[canonicalEmail].owner = users[canonicalEmail].owner
    BY <1>t, <2>1, <2>2 DEF TypeOK, Users, Statuses
  <2>4. None \notin Users
    BY ConstantsAssumption
  <2>5. canonicalEmail' = canonicalEmail
    BY DEF canonicalEmail, NormalizeEmail
  <2>6. owner' = owner
    BY <2>1, <2>3, <2>4, <2>5 DEF owner
  <2> QED BY <1>11, <1>13, <2>6 DEF SetStatus
<1>14. CASE UNCHANGED vars
  <2>1. owner' = owner
    BY <1>14 DEF vars, owner, canonicalEmail, NormalizeEmail
  <2> QED BY <1>11, <1>14, <2>1 DEF vars
<1> QED BY <1>1, <1>2, <1>3, <1>4, <1>5, <1>6, <1>7, <1>8, <1>9, <1>10, <1>12, <1>13, <1>14
        DEF Next, Step

-----------------------------------------------------------------------------
(* The clients.                                                             *)

\* An instance that does not move keeps its progress when another one leaves the table alone.
LEMMA ProgressKept ==
    ASSUME NEW j \in Instances, Progress(j), clients' = clients,
           UNCHANGED <<pc[j], config[j], todo[j], current[j]>>, j \in disturbed => j \in disturbed'
    PROVE  Progress(j)'
<1>1. ConfiguredClients(j)' = ConfiguredClients(j) /\ \A c : Wanted(j, c)' = Wanted(j, c)
  BY DEF ConfiguredClients, Wanted
<1> QED BY <1>1 DEF Progress, Reconciling, ConfiguredClients, Wanted

\* A row that instance i wrote.
Written(i, c) ==
    \/ clients'[c] = clients[c]
    \/ c \in ConfiguredClients(i) /\ clients[c] = None /\ clients'[c] = Wanted(i, c)
    \/ /\ c \in ConfiguredClients(i) /\ clients[c] # None
       /\ clients'[c] = [clients[c] EXCEPT !.rest = Wanted(i, c).rest]
    \/ c \notin ConfiguredClients(i) /\ clients'[c] = None

\* What is written for the same configuration is what an instance found or wrote itself.
LEMMA ProgressShared ==
    ASSUME TypeOK, TypeOK', ClientInv, NEW i \in Instances, NEW j \in Instances, pc[i] # "off", pc[j] # "off",
           Disturb(i), \A c \in Clients : Written(i, c),
           UNCHANGED <<pc[j], config[j], todo[j], current[j]>>
    PROVE  Progress(j)'
<1>1. Progress(j)
  BY DEF ClientInv
<1>2. CASE config[j] # config[i]
  <2>1. j \in disturbed'
    BY <1>2 DEF Disturb
  <2> QED BY <1>1, <2>1 DEF Progress, Reconciling, ConfiguredClients, Wanted
<1>3. CASE config[j] = config[i]
  <2>1. j \in disturbed' <=> j \in disturbed
    BY <1>3 DEF Disturb
  <2>2. /\ ConfiguredClients(j)' = ConfiguredClients(j) /\ ConfiguredClients(j) = ConfiguredClients(i)
        /\ ConfiguredClients(j) \subseteq Clients
        /\ \A c : Wanted(j, c)' = Wanted(j, c) /\ Wanted(j, c) = Wanted(i, c)
        /\ \A c \in ConfiguredClients(j) : Wanted(j, c) \in Settings
        /\ None \notin Settings
    BY <1>3, RunningConfig DEF ConfiguredClients, Wanted
  <2>3. ASSUME NEW c \in ConfiguredClients(j), clients[c] # None, clients[c].secret = Wanted(j, c).secret
        PROVE  /\ clients'[c] # None /\ clients'[c].secret = Wanted(j, c).secret
               /\ clients[c] = Wanted(j, c) => clients'[c] = Wanted(j, c)
    <3>1. clients[c] \in Settings /\ Wanted(j, c) \in Settings /\ c \in Clients
      BY <2>2, <2>3 DEF TypeOK
    <3>2. Written(i, c)
      BY <3>1
    <3>3. \/ clients'[c] = clients[c]
          \/ clients'[c] = [clients[c] EXCEPT !.rest = Wanted(j, c).rest]
      BY <2>2, <2>3, <3>2 DEF Written
    <3>4. [clients[c] EXCEPT !.rest = Wanted(j, c).rest] \in Settings
      BY <3>1 DEF Settings
    <3>5. clients'[c] \in Settings /\ clients'[c].secret = clients[c].secret
      BY <3>1, <3>3, <3>4 DEF Settings
    <3>6. clients[c] = Wanted(j, c) => clients'[c] = Wanted(j, c)
      BY <3>1, <3>3 DEF Settings
    <3> QED BY <2>2, <2>3, <3>5, <3>6
  <2>4. ASSUME j \notin disturbed PROVE \A c \in ConfiguredClients(j) \ todo[j] : clients'[c] = Wanted(j, c)
    <3> TAKE c \in ConfiguredClients(j) \ todo[j]
    <3>1. clients[c] = Wanted(j, c) /\ clients[c] # None
      BY <1>1, <2>2, <2>4 DEF Progress
    <3> QED BY <2>3, <3>1
  <2>5. ASSUME j \notin disturbed, pc[j] = "updateClient"
        PROVE  clients'[current[j]] # None /\ clients'[current[j]].secret = Wanted(j, current[j]).secret
    <3>1. /\ current[j] \in ConfiguredClients(j)
          /\ clients[current[j]] # None /\ clients[current[j]].secret = Wanted(j, current[j]).secret
      BY <1>1, <2>5 DEF Progress
    <3> QED BY <2>3, <3>1
  <2>6. ASSUME j \notin disturbed, pc[j] = "serving"
        PROVE  \A c \in Clients \ ConfiguredClients(j) : clients'[c] = None
    <3> TAKE c \in Clients \ ConfiguredClients(j)
    <3>1. clients[c] = None /\ Written(i, c)
      BY <1>1, <2>6 DEF Progress
    <3> QED BY <2>2, <3>1 DEF Written
  <2>7. /\ config'[j] \in Configs /\ todo'[j] \subseteq ConfiguredClients(j)
        /\ pc'[j] \notin Reconciling => todo'[j] = ConfiguredClients(j)
        /\ pc'[j] \in {"createClient", "updateClient"} => current'[j] \in todo'[j]
        /\ pc'[j] \in {"deleteClients", "serving"} => todo'[j] = {}
    BY <1>1 DEF Progress
  <2> QED BY <2>1, <2>2, <2>4, <2>5, <2>6, <2>7 DEF Progress, Reconciling
<1> QED BY <1>2, <1>3

LEMMA ClientStep ==
    ASSUME IInv, TypeOK', [Next]_vars
    PROVE  ClientInv'
<1> USE DEF tables, process, history
<1>t. TypeOK /\ ClientInv
  BY DEF IInv
<1>0. ASSUME NEW i \in Instances, clients' = clients,
             \A j \in Instances \ {i} : UNCHANGED <<pc[j], config[j], todo[j], current[j]>>,
             disturbed \ {i} \subseteq disturbed',
             pc'[i] # "off" => Progress(i)'
      PROVE  ClientInv'
  <2> SUFFICES ASSUME NEW j \in Instances, pc'[j] # "off" PROVE Progress(j)'
    BY DEF ClientInv
  <2>1. CASE j = i
    BY <1>0, <2>1
  <2>2. CASE j # i
    <3>1. pc[j] # "off" /\ Progress(j)
      BY <1>0, <1>t, <2>2 DEF ClientInv
    <3> QED BY <1>0, <2>2, <3>1, ProgressKept
  <2> QED BY <2>1, <2>2
<1>1. ASSUME NEW i \in Instances, Start(i) PROVE ClientInv'
  <2>1. PICK cfg \in Configs : config' = [config EXCEPT ![i] = cfg] /\ todo' = [todo EXCEPT ![i] = DOMAIN cfg.clients]
    BY <1>1 DEF Start
  <2>2. /\ pc' = [pc EXCEPT ![i] = "findAdmin"] /\ disturbed' = disturbed \ {i}
        /\ UNCHANGED <<clients, current>>
    BY <1>1 DEF Start, Goto
  <2>3. /\ config'[i] = cfg /\ todo'[i] = DOMAIN cfg.clients /\ pc'[i] = "findAdmin"
        /\ \A j \in Instances \ {i} : UNCHANGED <<pc[j], config[j], todo[j], current[j]>>
    BY <1>t, <2>1, <2>2 DEF TypeOK
  <2>4. Progress(i)'
    BY <2>3 DEF Progress, Reconciling, ConfiguredClients, Wanted
  <2> QED BY <1>0, <2>2, <2>3, <2>4
<1>2. ASSUME NEW i \in Instances,
             \/ FindAdmin(i) \/ CreateAdmin(i) \/ FindAgain(i) \/ LogPassword(i) \/ Grant(i)
             \/ FindKey(i) \/ SeedKey(i) \/ Crash(i)
      PROVE  ClientInv'
  <2>1. /\ UNCHANGED <<clients, config, todo, current, disturbed>> /\ pc[i] # "off"
        /\ \/ pc' = [pc EXCEPT ![i] = "off"]
           \/ /\ pc[i] \in Steps \ Reconciling
              /\ \E step \in (Steps \ Reconciling) \cup {"findClient"} : pc' = [pc EXCEPT ![i] = step]
    <3>1. CASE FindAdmin(i)
      BY <3>1 DEF FindAdmin, Goto, Abort, Steps, Reconciling
    <3>2. CASE CreateAdmin(i)
      BY <3>2 DEF CreateAdmin, Goto, Steps, Reconciling
    <3>3. CASE FindAgain(i)
      BY <3>3 DEF FindAgain, Goto, Steps, Reconciling
    <3>4. CASE LogPassword(i)
      BY <3>4 DEF LogPassword, Goto, Steps, Reconciling
    <3>5. CASE Grant(i)
      BY <3>5 DEF Grant, Goto, Steps, Reconciling
    <3>6. CASE FindKey(i)
      BY <3>6 DEF FindKey, Goto, Steps, Reconciling
    <3>7. CASE SeedKey(i)
      BY <3>7 DEF SeedKey, Goto, Abort, Steps, Reconciling
    <3>8. CASE Crash(i)
      BY <3>8 DEF Crash, Goto
    <3> QED BY <1>2, <3>1, <3>2, <3>3, <3>4, <3>5, <3>6, <3>7, <3>8
  <2>2. /\ \A j \in Instances \ {i} : pc'[j] = pc[j]
        /\ pc'[i] # "off" => pc[i] \in Steps \ Reconciling /\ pc'[i] \in (Steps \ Reconciling) \cup {"findClient"}
    BY <1>t, <2>1 DEF TypeOK
  <2>3. Progress(i)
    BY <1>t, <2>1 DEF ClientInv
  <2>4. pc'[i] # "off" => Progress(i)'
    BY <2>1, <2>2, <2>3 DEF Progress, Steps, Reconciling, ConfiguredClients, Wanted
  <2> QED BY <1>0, <2>1, <2>2, <2>4
<1>3. ASSUME NEW i \in Instances, FindClient(i) PROVE ClientInv'
  <2>1. UNCHANGED <<clients, config, todo, disturbed>> /\ pc[i] = "findClient"
    BY <1>3 DEF FindClient
  <2>2. Progress(i)
    BY <1>t, <2>1 DEF ClientInv
  <2>3. CASE todo[i] = {} /\ Goto(i, "deleteClients") /\ UNCHANGED current
    <3>1. pc'[i] = "deleteClients" /\ \A j \in Instances \ {i} : pc'[j] = pc[j]
      BY <1>t, <2>3 DEF Goto, TypeOK
    <3>2. Progress(i)'
      BY <2>1, <2>2, <2>3, <3>1 DEF Progress, Reconciling, ConfiguredClients, Wanted
    <3> QED BY <1>0, <2>1, <2>3, <3>1, <3>2
  <2>4. ASSUME NEW c \in todo[i],
               current' = [current EXCEPT ![i] = c],
               \/ clients[c] = None /\ Goto(i, "createClient")
               \/ clients[c] # None /\ clients[c].secret = Wanted(i, c).secret /\ Goto(i, "updateClient")
               \/ Goto(i, "off")
        PROVE  ClientInv'
    <3>1. PICK step \in {"off", "createClient", "updateClient"} :
            /\ pc' = [pc EXCEPT ![i] = step]
            /\ step = "updateClient" => clients[c] # None /\ clients[c].secret = Wanted(i, c).secret
      BY <2>4 DEF Goto
    <3>2. /\ pc'[i] = step /\ current'[i] = c
          /\ \A j \in Instances \ {i} : pc'[j] = pc[j] /\ current'[j] = current[j]
      BY <1>t, <2>4, <3>1 DEF TypeOK
    <3>3. pc'[i] # "off" => Progress(i)'
      BY <2>1, <2>2, <2>4, <3>1, <3>2 DEF Progress, Reconciling, ConfiguredClients, Wanted
    <3> QED BY <1>0, <2>1, <3>2, <3>3
  <2> QED BY <1>3, <2>3, <2>4 DEF FindClient, Abort
<1>4. ASSUME NEW i \in Instances, pc[i] # "off", Disturb(i), \A c \in Clients : Written(i, c),
             \A j \in Instances \ {i} : UNCHANGED <<pc[j], config[j], todo[j], current[j]>>,
             pc'[i] # "off" => Progress(i)'
      PROVE  ClientInv'
  <2> SUFFICES ASSUME NEW j \in Instances, pc'[j] # "off" PROVE Progress(j)'
    BY DEF ClientInv
  <2>1. CASE j = i
    BY <1>4, <2>1
  <2>2. CASE j # i
    BY <1>4, <1>t, <2>2, ProgressShared
  <2> QED BY <2>1, <2>2
<1>5. ASSUME NEW i \in Instances, Abort(i), UNCHANGED <<clients, config, todo, current, disturbed>>
      PROVE  ClientInv'
  <2>1. pc'[i] = "off" /\ \A j \in Instances \ {i} : pc'[j] = pc[j]
    BY <1>5, <1>t DEF Abort, Goto, TypeOK
  <2> QED BY <1>0, <1>5, <2>1
<1>6. ASSUME NEW i \in Instances, CreateClient(i) \/ UpdateClient(i) PROVE ClientInv'
  <2>1. pc[i] \in {"createClient", "updateClient"} /\ UNCHANGED <<config, current>>
    BY <1>6 DEF CreateClient, UpdateClient
  <2>2. /\ current[i] \in todo[i] /\ current[i] \in ConfiguredClients(i) /\ current[i] \in Clients
        /\ Wanted(i, current[i]) \in Settings
    BY <1>t, <2>1, CurrentClient
  <2>3. Progress(i)
    BY <1>t, <2>1 DEF ClientInv
  <2>4. CASE Abort(i) /\ UNCHANGED <<clients, todo, disturbed>>
    BY <1>5, <2>1, <2>4
  <2>5. ASSUME Disturb(i), Reconciled(i), \A c \in Clients \ {current[i]} : clients'[c] = clients[c],
               Written(i, current[i]), i \notin disturbed => clients'[current[i]] = Wanted(i, current[i])
        PROVE  ClientInv'
    <3>1. /\ pc'[i] = "findClient" /\ todo'[i] = todo[i] \ {current[i]}
          /\ \A j \in Instances \ {i} : pc'[j] = pc[j] /\ todo'[j] = todo[j]
      BY <1>t, <2>5 DEF Reconciled, Goto, TypeOK
    <3>2. \A c \in Clients : Written(i, c)
      BY <2>5 DEF Written
    <3>3. i \in disturbed' <=> i \in disturbed
      BY <2>5 DEF Disturb
    <3>4. ConfiguredClients(i) \subseteq Clients
      BY <1>t, <2>1, RunningConfig
    <3>5. i \notin disturbed' => \A c \in ConfiguredClients(i) \ todo'[i] : clients'[c] = Wanted(i, c)
      <4> SUFFICES ASSUME i \notin disturbed, NEW c \in ConfiguredClients(i) \ todo'[i]
                   PROVE  clients'[c] = Wanted(i, c)
        BY <3>3
      <4>1. CASE c = current[i]
        BY <2>5, <4>1
      <4>2. CASE c # current[i]
        BY <2>3, <2>5, <3>1, <3>4, <4>2 DEF Progress
      <4> QED BY <4>1, <4>2
    <3>6. Progress(i)'
      BY <2>1, <2>3, <3>1, <3>5 DEF Progress, Reconciling, ConfiguredClients, Wanted
    <3> QED BY <1>4, <2>1, <2>5, <3>1, <3>2, <3>6
  <2>6. CASE CreateClient(i) /\ clients[current[i]] = None
    <3>1. clients' = [clients EXCEPT ![current[i]] = Wanted(i, current[i])] /\ Reconciled(i) /\ Disturb(i)
      BY <2>6 DEF CreateClient
    <3>2. clients'[current[i]] = Wanted(i, current[i]) /\ \A c \in Clients \ {current[i]} : clients'[c] = clients[c]
      BY <1>t, <2>2, <3>1 DEF TypeOK
    <3> QED BY <2>2, <2>5, <2>6, <3>1, <3>2 DEF Written
  <2>7. CASE UpdateClient(i) /\ clients[current[i]] # None
    <3>1. /\ clients' = [clients EXCEPT ![current[i]] = [clients[current[i]] EXCEPT !.rest = Wanted(i, current[i]).rest]]
          /\ Reconciled(i) /\ Disturb(i) /\ pc[i] = "updateClient"
      BY <2>7 DEF UpdateClient
    <3>2. /\ clients'[current[i]] = [clients[current[i]] EXCEPT !.rest = Wanted(i, current[i]).rest]
          /\ \A c \in Clients \ {current[i]} : clients'[c] = clients[c]
      BY <1>t, <2>2, <3>1 DEF TypeOK
    <3>3. i \notin disturbed => clients[current[i]].secret = Wanted(i, current[i]).secret
      BY <2>3, <3>1 DEF Progress
    <3>4. clients[current[i]] \in Settings
      BY <1>t, <2>2, <2>7 DEF TypeOK
    <3>5. i \notin disturbed => clients'[current[i]] = Wanted(i, current[i])
      BY <2>2, <3>2, <3>3, <3>4 DEF Settings
    <3> QED BY <2>2, <2>5, <2>7, <3>1, <3>2, <3>5 DEF Written
  <2> QED BY <1>6, <2>4, <2>6, <2>7 DEF CreateClient, UpdateClient
<1>7. ASSUME NEW i \in Instances, DeleteClients(i) PROVE ClientInv'
  <2>1. /\ pc[i] = "deleteClients" /\ Disturb(i) /\ UNCHANGED <<config, todo, current>>
        /\ pc' = [pc EXCEPT ![i] = "serving"]
        /\ clients' = [c \in Clients |-> IF c \in ConfiguredClients(i) THEN clients[c] ELSE None]
    BY <1>7 DEF DeleteClients, Goto
  <2>2. pc'[i] = "serving" /\ \A j \in Instances \ {i} : pc'[j] = pc[j]
    BY <1>t, <2>1 DEF TypeOK
  <2>3. \A c \in Clients : Written(i, c)
    BY <2>1 DEF Written
  <2>4. Progress(i)
    BY <1>t, <2>1 DEF ClientInv
  <2>5. i \in disturbed' <=> i \in disturbed
    BY <2>1 DEF Disturb
  <2>6. ConfiguredClients(i) \subseteq Clients
    BY <1>t, <2>1, RunningConfig
  <2>7. /\ \A c \in ConfiguredClients(i) : clients'[c] = clients[c]
        /\ \A c \in Clients \ ConfiguredClients(i) : clients'[c] = None
    BY <2>1, <2>6
  <2>8. Progress(i)'
    BY <2>1, <2>2, <2>4, <2>5, <2>7 DEF Progress, Reconciling, ConfiguredClients, Wanted
  <2> QED BY <1>4, <2>1, <2>2, <2>3, <2>8
<1>8. ASSUME UNCHANGED <<clients, pc, config, todo, current, disturbed>> PROVE ClientInv'
  BY <1>t, <1>8 DEF ClientInv, Progress, Reconciling, ConfiguredClients, Wanted
<1>9. CASE Register \/ SetStatus \/ UNCHANGED vars
  BY <1>8, <1>9 DEF Register, SetStatus, vars
<1> QED BY <1>1, <1>2, <1>3, <1>6, <1>7, <1>9 DEF Next, Step

-----------------------------------------------------------------------------
(* Theorems.                                                                *)

LEMMA InitInv == Init => IInv
<1> SUFFICES ASSUME Init PROVE IInv
  OBVIOUS
<1>1. TypeOK
  BY ConstantsAssumption DEF Init, TypeOK
<1>2. owner = None /\ None \notin Owners
  BY <1>1, OwnerFacts DEF Init, owner
<1>3. AdminInv
  BY <1>2 DEF Init, AdminInv, Reconciling, Owners
<1>4. ClientInv
  BY DEF Init, ClientInv
<1>5. OneAdministrator
  BY FS_EmptySet DEF Init, OneAdministrator
<1>6. PasswordHandedOver
  BY <1>2 DEF Init, PasswordHandedOver, Owners
<1> QED BY <1>1, <1>3, <1>4, <1>5, <1>6 DEF IInv

LEMMA StepInv == IInv /\ [Next]_vars => IInv'
<1> SUFFICES ASSUME IInv, [Next]_vars PROVE IInv'
  OBVIOUS
<1>1. TypeOK'
  BY TypeStep
<1>2. AdminSafe'
  BY AdminStep
<1>3. ClientInv'
  BY <1>1, ClientStep
<1> QED BY <1>1, <1>2, <1>3 DEF IInv, AdminSafe

\* The inductive invariant holds however instances start, fail and start again.
THEOREM Invariance == Spec => []IInv
  BY InitInv, StepInv, PTL DEF Spec

\* Rows, relations and the steps of Initializer.Initialize are of their types.
THEOREM TypeCorrect == Spec => []TypeOK
<1>1. IInv => TypeOK
  BY DEF IInv
<1> QED BY Invariance, <1>1, PTL

\* No instance serves before Initialize has seen to the administrator, the relation and the key.
THEOREM ServesReady == Spec => []ReadyWhenServing
<1>1. IInv => ReadyWhenServing
  BY DEF IInv, AdminInv, ReadyWhenServing, Reconciling
<1> QED BY Invariance, <1>1, PTL

\* EnsurePlatformAdmin gives the relation to one user, whichever instance created it.
THEOREM GrantsOne == Spec => []OneAdministrator
<1>1. IInv => OneAdministrator
  BY DEF IInv
<1> QED BY Invariance, <1>1, PTL

\* Only a start that stopped between creating the administrator and logging its password loses it.
THEOREM HandsPasswordOver == Spec => []PasswordHandedOver
<1>1. IInv => PasswordHandedOver
  BY DEF IInv
<1> QED BY Invariance, <1>1, PTL

\* reconcileClient and the deletion leave the configured clients, unless other configurations wrote.
THEOREM ServesConfigured == Spec => []ServesItsClients
<1>1. IInv => ServesItsClients
  <2> SUFFICES ASSUME IInv, NEW i \in Instances, pc[i] = "serving", i \notin disturbed, NEW c \in Clients
               PROVE  clients[c] = IF c \in ConfiguredClients(i) THEN Wanted(i, c) ELSE None
    BY DEF ServesItsClients
  <2>1. Progress(i)
    BY DEF IInv, ClientInv
  <2> QED BY <2>1 DEF Progress
<1> QED BY Invariance, <1>1, PTL
=============================================================================
