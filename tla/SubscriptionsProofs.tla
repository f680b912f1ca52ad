------------------------- MODULE SubscriptionsProofs -------------------------
(***************************************************************************)
(* Proofs about the registry contract and about subscriptions, for any     *)
(* accounts, functions, owners, rules, contents and heights.               *)
(*                                                                         *)
(* The contract first.  SeenBefore is the strengthening: what the last     *)
(* block showed has a version below the current height, so a registration  *)
(* of this block cannot share it.                                          *)
(***************************************************************************)
EXTENDS Subscriptions, TLAPS

SeenBefore ==
  \A a \in Accounts, f \in Functions :
    seen[a][f] # Unregistered => Version(seen[a][f]) < height

Inv ==
  TypeOK /\ HeightsInOrder /\ VersionNamesConfig /\ SeenBefore

(* What register stores: a config of the current height. *)
LEMMA RegisteredFacts ==
  ASSUME height \in Heights, NEW old \in Configs \cup {Unregistered},
         NEW rule \in Rules, NEW content \in Contents
  PROVE  /\ Registered(old, rule, content) \in Configs
         /\ Registered(old, rule, content) # Unregistered
         /\ Version(Registered(old, rule, content)) = height
         /\ Registered(old, rule, content).deleted = None
         /\ Registered(old, rule, content).created \in {height, old.created}
         /\ old = Unregistered => Registered(old, rule, content).created = height
         /\ Registered(old, rule, content).content = content
<1>1. height # None
  BY ContractAssumption DEF Heights, None
<1>2. old.created \in Heights \/ old = Unregistered
  BY DEF Configs
<1>3. Registered(old, rule, content) \in Configs
  <2>1. CASE old = Unregistered
    BY <2>1 DEF Registered, Configs, None
  <2>2. CASE old # Unregistered
    <3>1. old.created \in Heights
      BY <1>2, <2>2
    <3> QED BY <2>2, <3>1 DEF Registered, Configs, None
  <2> QED BY <2>1, <2>2
<1>4. Registered(old, rule, content) # Unregistered
  BY ContractAssumption, <1>3 DEF Configs, Unregistered, Heights, None
<1>5. Version(Registered(old, rule, content)) = height
  BY <1>1 DEF Version, Registered
<1>6. QED
  BY <1>3, <1>4, <1>5 DEF Registered

(* Versions, and what is registered, as the types give them. *)
LEMMA ConfigFacts ==
  ASSUME NEW c \in Configs
  PROVE  /\ c # Unregistered
         /\ Version(c) \in Heights
         /\ c.created \in Heights
         /\ c.deleted \in Heights \cup {None}
  BY DEF Configs, Unregistered, Version, Heights, None

LEMMA InitInv ==
  ASSUME Init PROVE Inv
<1>1. FirstHeight \in Heights
  BY ContractAssumption DEF Heights
<1>2. TypeOK
  <2>1. Migrated \subseteq Configs
    BY DEF Migrated
  <2>2. roles \subseteq [account : Accounts, role : Roles]
    BY ContractAssumption DEF Init, DefaultRoles, Roles
  <2>3. registry \in Registries
    BY <2>1 DEF Init, Registries
  <2> QED BY <1>1, <2>2, <2>3, ContractAssumption DEF Init, TypeOK
<1>3. ASSUME NEW a \in Accounts, NEW f \in Functions,
             registry[a][f] # Unregistered
      PROVE  /\ registry[a][f] \in Migrated
             /\ Version(registry[a][f]) \in Heights
             /\ Version(registry[a][f]) < height
             /\ registry[a][f].created <= Version(registry[a][f])
             /\ registry[a][f].deleted = None
  <2>1. registry[a][f] \in Migrated
    BY <1>3 DEF Init
  <2>2. registry[a][f] \in Configs
    BY <2>1 DEF Migrated
  <2> QED BY <2>1, <2>2, ConfigFacts DEF Migrated, Init
<1>4. HeightsInOrder
  BY <1>1, <1>3 DEF HeightsInOrder, Init, Heights
<1>5. SeenBefore
  BY <1>3 DEF SeenBefore, Init
<1>6. VersionNamesConfig
  BY <1>3 DEF VersionNamesConfig, Init, Heights
<1> QED BY <1>2, <1>4, <1>5, <1>6 DEF Inv

LEMMA RegisterInv ==
  ASSUME Inv, NEW s \in Accounts, NEW account \in Accounts,
         NEW function \in Functions, NEW rule \in Rules,
         NEW content \in Contents, Register(s, account, function, rule, content)
  PROVE  Inv'
<1> USE DEF Inv
<1> DEFINE old == registry[account][function]
           new == Registered(old, rule, content)
<1>1. old \in Configs \cup {Unregistered} /\ height \in Heights
  BY DEF TypeOK, Registries
<1>2. registry' = [registry EXCEPT ![account][function] = new]
  BY DEF Register
<1> HIDE DEF new
<1>3. /\ new \in Configs /\ new # Unregistered /\ Version(new) = height
      /\ new.deleted = None /\ new.created \in {height, old.created}
      /\ old = Unregistered => new.created = height
  BY <1>1, RegisteredFacts DEF new
<1>4. /\ registry'[account][function] = new
      /\ \A a \in Accounts, f \in Functions :
           a # account \/ f # function => registry'[a][f] = registry[a][f]
  BY <1>2 DEF TypeOK, Registries
<1>5. UNCHANGED <<roles, height, seen>>
  BY DEF Register
<1>6. TypeOK'
  <2>1. registry' \in Registries
    BY <1>2, <1>3 DEF TypeOK, Registries
  <2> QED BY <1>5, <2>1 DEF TypeOK
<1>7. SeenBefore'
  BY <1>5 DEF SeenBefore, Version
<1>8. HeightsInOrder'
  <2>1. new.created <= height
    BY <1>1, <1>3, ConfigFacts DEF HeightsInOrder, Heights
  <2>2. ASSUME NEW a \in Accounts, NEW f \in Functions,
               registry'[a][f] # Unregistered
        PROVE  /\ registry'[a][f].created <= Version(registry'[a][f])
               /\ Version(registry'[a][f]) <= height
               /\ registry'[a][f].deleted # None =>
                    /\ Version(registry'[a][f]) <= registry'[a][f].deleted
                    /\ registry'[a][f].deleted <= height
    <3>1. CASE a = account /\ f = function
      BY <1>1, <1>3, <1>4, <2>1, <3>1 DEF Heights
    <3>2. CASE a # account \/ f # function
      BY <1>4, <2>2, <3>2 DEF HeightsInOrder
    <3> QED BY <3>1, <3>2
  <2> QED BY <1>5, <2>2 DEF HeightsInOrder, Version
<1>9. VersionNamesConfig'
  <2> SUFFICES ASSUME NEW a \in Accounts, NEW f \in Functions,
                      seen[a][f] # Unregistered
               PROVE  LET c == registry'[a][f] IN
                      /\ c # Unregistered
                      /\ Version(seen[a][f]) <= Version(c)
                      /\ Version(seen[a][f]) = Version(c) =>
                           /\ c.content = seen[a][f].content
                           /\ c.rule = seen[a][f].rule
                           /\ c.deleted = None => seen[a][f].deleted = None
    BY <1>5 DEF VersionNamesConfig, Version
  <2>1. CASE a = account /\ f = function
    <3>1. Version(seen[a][f]) \in Nat
      BY ConfigFacts DEF TypeOK, Registries, Heights
    <3>2. Version(seen[a][f]) < height
      BY DEF SeenBefore
    <3> QED BY <1>1, <1>3, <1>4, <2>1, <3>1, <3>2 DEF Heights
  <2>2. CASE a # account \/ f # function
    BY <1>4, <2>2 DEF VersionNamesConfig
  <2> QED BY <2>1, <2>2
<1> QED BY <1>6, <1>7, <1>8, <1>9

LEMMA RemoveInv ==
  ASSUME Inv, NEW s \in Accounts, NEW account \in Accounts,
         NEW function \in Functions, RemoveIndexerFunction(s, account, function)
  PROVE  Inv'
<1> USE DEF Inv
<1> DEFINE old == registry[account][function]
           new == [old EXCEPT !.deleted = height]
<1>1. old \in Configs /\ height \in Heights
  BY DEF TypeOK, Registries, RemoveIndexerFunction
<1>2. registry' = [registry EXCEPT ![account][function] = new]
  BY DEF RemoveIndexerFunction
<1>3. /\ new \in Configs /\ Version(new) = Version(old)
      /\ new.deleted = height /\ new.created = old.created
      /\ new.content = old.content /\ new.rule = old.rule
  BY <1>1 DEF Configs, Version
<1> HIDE DEF new
<1>4. /\ registry'[account][function] = new
      /\ \A a \in Accounts, f \in Functions :
           a # account \/ f # function => registry'[a][f] = registry[a][f]
  BY <1>2 DEF TypeOK, Registries
<1>5. UNCHANGED <<roles, height, seen>>
  BY DEF RemoveIndexerFunction
<1>6. TypeOK'
  <2>1. registry' \in Registries
    BY <1>2, <1>3 DEF TypeOK, Registries
  <2> QED BY <1>5, <2>1 DEF TypeOK
<1>7. SeenBefore'
  BY <1>5 DEF SeenBefore, Version
<1>8. HeightsInOrder'
  <2>1. old # Unregistered
    BY <1>1, ConfigFacts
  <2>2. ASSUME NEW a \in Accounts, NEW f \in Functions,
               registry'[a][f] # Unregistered
        PROVE  /\ registry'[a][f].created <= Version(registry'[a][f])
               /\ Version(registry'[a][f]) <= height
               /\ registry'[a][f].deleted # None =>
                    /\ Version(registry'[a][f]) <= registry'[a][f].deleted
                    /\ registry'[a][f].deleted <= height
    <3>1. CASE a = account /\ f = function
      BY <1>1, <1>3, <1>4, <2>1, <3>1 DEF HeightsInOrder, Heights
    <3>2. CASE a # account \/ f # function
      BY <1>4, <2>2, <3>2 DEF HeightsInOrder
    <3> QED BY <3>1, <3>2
  <2> QED BY <1>5, <2>2 DEF HeightsInOrder, Version
<1>9. VersionNamesConfig'
  <2> SUFFICES ASSUME NEW a \in Accounts, NEW f \in Functions,
                      seen[a][f] # Unregistered
               PROVE  LET c == registry'[a][f] IN
                      /\ c # Unregistered
                      /\ Version(seen[a][f]) <= Version(c)
                      /\ Version(seen[a][f]) = Version(c) =>
                           /\ c.content = seen[a][f].content
                           /\ c.rule = seen[a][f].rule
                           /\ c.deleted = None => seen[a][f].deleted = None
    BY <1>5 DEF VersionNamesConfig, Version
  <2>1. CASE a = account /\ f = function
    <3>1. new # Unregistered /\ new.deleted # None
      BY <1>1, <1>3, ConfigFacts DEF Heights, None
    <3> QED BY <1>3, <1>4, <2>1, <3>1 DEF VersionNamesConfig
  <2>2. CASE a # account \/ f # function
    BY <1>4, <2>2 DEF VersionNamesConfig
  <2> QED BY <2>1, <2>2
<1> QED BY <1>6, <1>7, <1>8, <1>9

LEMMA EndBlockInv ==
  ASSUME Inv, EndBlock
  PROVE  Inv'
<1> USE DEF Inv, EndBlock
<1>1. TypeOK'
  BY ContractAssumption DEF TypeOK, Heights
<1>2. ASSUME NEW a \in Accounts, NEW f \in Functions,
             registry[a][f] # Unregistered
      PROVE  /\ registry[a][f] \in Configs
             /\ Version(registry[a][f]) \in Nat
             /\ registry[a][f].deleted \in Nat
  <2>1. registry[a][f] \in Configs
    BY <1>2 DEF TypeOK, Registries
  <2> QED BY <2>1, ConfigFacts DEF Heights, None
<1>3. height \in Nat /\ height' = height + 1
  BY DEF TypeOK, Heights
<1>4. HeightsInOrder'
  BY <1>2, <1>3 DEF HeightsInOrder, Version
<1>5. SeenBefore'
  BY <1>2, <1>3 DEF HeightsInOrder, SeenBefore, Version
<1>6. VersionNamesConfig'
  BY <1>2 DEF VersionNamesConfig, Version
<1> QED BY <1>1, <1>4, <1>5, <1>6

(* A call that leaves the registry alone. *)
LEMMA RolesInv ==
  ASSUME Inv, UNCHANGED <<registry, height, seen>>,
         roles' \subseteq [account : Accounts, role : Roles]
  PROVE  Inv'
  BY DEF Inv, TypeOK, HeightsInOrder, VersionNamesConfig, SeenBefore, Version

(* Every call, and the end of a block, preserves the invariant. *)
LEMMA NextInv ==
  ASSUME Inv, [Next]_vars PROVE Inv'
<1>1. ASSUME NEW s \in Accounts, NEW account \in Accounts,
             NEW role \in Roles, AddUser(s, account, role)
      PROVE  Inv'
  BY <1>1, RolesInv DEF AddUser, Inv, TypeOK
<1>2. ASSUME NEW s \in Accounts, NEW account \in Accounts,
             RemoveUser(s, account)
      PROVE  Inv'
  BY <1>2, RolesInv DEF RemoveUser, Inv, TypeOK
<1>3. CASE UNCHANGED vars
  BY <1>3, RolesInv DEF vars, Inv, TypeOK
<1> QED BY <1>1, <1>2, <1>3, RegisterInv, RemoveInv, EndBlockInv DEF Next

(* The inductive invariant of the contract. *)
THEOREM InvHolds == Spec => []Inv
<1>1. Init => Inv
  BY InitInv
<1>2. Inv /\ [Next]_vars => Inv'
  BY NextInv
<1> QED BY <1>1, <1>2, PTL DEF Spec

(* The state of the contract keeps its type. *)
THEOREM ContractTypeCorrect == Spec => []TypeOK
  BY InvHolds, PTL DEF Inv

(* created, updated and deleted of every entry stay in order. *)
THEOREM HeightsCorrect == Spec => []HeightsInOrder
  BY InvHolds, PTL DEF Inv

(* One version names one registration: what the Coordinator relies on when *)
(* it compares versions to decide what to restart.                         *)
THEOREM VersionCorrect == Spec => []VersionNamesConfig
  BY InvHolds, PTL DEF Inv

(* No account is ever given a second role, so the first one assert_roles   *)
(* finds is the only one.                                                  *)
THEOREM RolesCorrect == Spec => []OneRolePerAccount
<1>1. Init => OneRolePerAccount
  BY DEF Init, DefaultRoles, OneRolePerAccount
<1>2. OneRolePerAccount /\ [Next]_vars => OneRolePerAccount'
  <2> SUFFICES ASSUME OneRolePerAccount, [Next]_vars PROVE OneRolePerAccount'
    OBVIOUS
  <2>1. ASSUME NEW s \in Accounts, NEW account \in Accounts,
               NEW role \in Roles, AddUser(s, account, role)
        PROVE  OneRolePerAccount'
    BY <2>1 DEF AddUser, HasRole, OneRolePerAccount
  <2>2. ASSUME NEW s \in Accounts, NEW account \in Accounts,
               RemoveUser(s, account)
        PROVE  OneRolePerAccount'
    BY <2>2 DEF RemoveUser, OneRolePerAccount
  <2>3. CASE UNCHANGED roles
    BY <2>3 DEF OneRolePerAccount
  <2> QED BY <2>1, <2>2, <2>3
          DEF Next, Register, RemoveIndexerFunction, EndBlock, vars
<1> QED BY <1>1, <1>2, PTL DEF Spec

-----------------------------------------------------------------------------
(***************************************************************************)
(* Subscriptions.  What a manager fetched, and what it started from that,  *)
(* may be old, but never differs from what the contract shows at the same  *)
(* version, and never runs ahead of the fetch: Follows, the strengthening.  A new block preserves it because  *)
(* versions name registrations (VersionNamesConfig).                       *)
(***************************************************************************)
Follows(i) ==
  LET c == seen[i[1]][i[2]] IN
  /\ i \in managed => c # Unregistered
  /\ config[i] # Unregistered =>
       /\ c # Unregistered /\ Version(config[i]) <= Version(c)
       /\ Version(config[i]) = Version(c) =>
            config[i].rule = c.rule /\ config[i].content = c.content
  /\ streams[i] # Absent =>
       /\ c # Unregistered /\ streams[i].version <= Version(c)
       /\ streams[i].version = Version(c) => streams[i].rule = c.rule
       /\ config[i] # Unregistered => streams[i].version <= Version(config[i])
  /\ executors[i] # Absent =>
       /\ c # Unregistered /\ executors[i].version <= Version(c)
       /\ executors[i].version = Version(c) => executors[i].content = c.content
       /\ config[i] # Unregistered =>
            executors[i].version <= Version(config[i])

AllInv == Inv /\ AllTypeOK /\ \A i \in Indexers : Follows(i)

(* Sent to the Block Streamer and read back, a rule is what it was. *)
LEMMA RuleSurvives ==
  ASSUME NEW rule \in Rules, Supported(rule)
  PROVE  StreamedRule(GrpcRule(rule)) = rule
<1>1. rule \in RuleType
  BY ContractAssumption
<1>2. rule.status \in Statuses /\ rule = [rule EXCEPT !.status = rule.status]
  BY <1>1 DEF RuleType, Supported
<1>3. MatchStatus(GrpcStatus(rule.status)) = rule.status
  BY <1>2 DEF MatchStatus, GrpcStatus, Statuses
<1>4. GrpcRule(rule).status = GrpcStatus(rule.status)
  BY <1>1 DEF GrpcRule, RuleType, Supported
<1>5. StreamedRule(GrpcRule(rule)) = [rule EXCEPT !.status = rule.status]
  BY <1>1, <1>3, <1>4 DEF StreamedRule, GrpcRule, RuleType, Supported
<1> QED BY <1>2, <1>5

(* Entries of the registry as main() and the managers see them. *)
LEMMA SeenFacts ==
  ASSUME AllInv, NEW i \in Indexers
  PROVE  /\ i[1] \in Accounts /\ i[2] \in Functions
         /\ seen[i[1]][i[2]] \in Configs \cup {Unregistered}
         /\ registry[i[1]][i[2]] \in Configs \cup {Unregistered}
         /\ config[i] \in Configs \cup {Unregistered}
  BY IndexersAssumption DEF AllInv, AllTypeOK, TypeOK, Registries

LEMMA AllInitInv ==
  ASSUME AllInit PROVE AllInv
<1>1. Inv
  BY InitInv DEF AllInit
<1> QED BY <1>1 DEF AllInit, AllInv, AllTypeOK, Inv, Follows

(* A step of the contract: only the end of a block shows. *)
LEMMA ContractStep ==
  ASSUME AllInv, [Next]_vars, UNCHANGED <<coordinator, streams, executors>>
  PROVE  AllInv'
<1>1. Inv'
  BY NextInv DEF AllInv
<1>2. AllTypeOK'
  BY <1>1 DEF AllInv, AllTypeOK, Inv, coordinator
<1>3. ASSUME NEW i \in Indexers PROVE Follows(i)'
  <2> DEFINE c == seen[i[1]][i[2]]
             d == registry[i[1]][i[2]]
  <2>1. CASE UNCHANGED seen
    BY <2>1 DEF AllInv, Follows, coordinator, Version
  <2>2. CASE EndBlock
    <3>1. seen' = registry
      BY <2>2 DEF EndBlock
    <3>2. c # Unregistered =>
            /\ d # Unregistered /\ Version(c) \in Nat /\ Version(d) \in Nat
            /\ Version(c) <= Version(d)
            /\ Version(c) = Version(d) => d.content = c.content /\ d.rule = c.rule
      BY SeenFacts, ConfigFacts
      DEF AllInv, Inv, VersionNamesConfig, Heights
    <3>3. config[i] # Unregistered => Version(config[i]) \in Nat
      BY SeenFacts, ConfigFacts DEF Heights
    <3>4. /\ streams[i] # Absent => streams[i].version \in Nat
          /\ executors[i] # Absent => executors[i].version \in Nat
      BY DEF AllInv, AllTypeOK, Heights
    <3>5. Follows(i)
      BY DEF AllInv
    <3> QED BY <3>1, <3>2, <3>3, <3>4, <3>5 DEF Follows, coordinator, Version
  <2> QED BY <2>1, <2>2
          DEF Next, vars, Register, RemoveIndexerFunction, AddUser, RemoveUser
<1> QED BY <1>1, <1>2, <1>3 DEF AllInv

(* Inv speaks of the contract alone. *)
LEMMA ContractKept ==
  ASSUME AllInv, UNCHANGED vars PROVE Inv'
  BY NextInv DEF AllInv

LEMMA SyncStep ==
  ASSUME AllInv, Sync, UNCHANGED vars PROVE AllInv'
<1>1. Inv' /\ UNCHANGED <<seen, registry>>
  BY ContractKept DEF vars
<1>2. ASSUME NEW i \in Indexers, Spawn(i) PROVE AllInv'
  <2>1. seen[i[1]][i[2]] # Unregistered
    BY <1>2, IndexersAssumption DEF Spawn, Fetched, ListAll, ListByAccount,
                                     Live, Final
  <2> QED BY <1>1, <1>2, <2>1
          DEF Spawn, AllInv, AllTypeOK, Inv, Follows, Version
<1>3. ASSUME NEW i \in Indexers, FetchIndexer(i) PROVE AllInv'
  <2>1. config' = [config EXCEPT ![i] = seen[i[1]][i[2]]]
    BY <1>3 DEF FetchIndexer, ReadIndexerFunction, Final
  <2>2. seen[i[1]][i[2]] # Unregistered => Version(seen[i[1]][i[2]]) \in Nat
    BY SeenFacts, ConfigFacts DEF Heights
  <2>3. AllTypeOK'
    BY <1>1, <1>3, <2>1, SeenFacts DEF FetchIndexer, AllInv, AllTypeOK, Inv
  <2> QED BY <1>1, <1>3, <2>1, <2>2, <2>3
          DEF FetchIndexer, AllInv, AllTypeOK, Follows, Version
<1>4. ASSUME NEW i \in Indexers, StartStream(i) PROVE AllInv'
  <2>1. config[i] \in Configs /\ Version(config[i]) \in Heights
    BY <1>4, SeenFacts, ConfigFacts DEF StartStream
  <2>2. StreamedRule(GrpcRule(config[i].rule)) = config[i].rule
    BY <1>4, <2>1, RuleSurvives DEF StartStream, Configs
  <2>3. streams' = [streams EXCEPT ![i] = [version |-> Version(config[i]),
                                           rule |-> config[i].rule]]
    BY <1>4, <2>2 DEF StartStream
  <2>4. AllTypeOK'
    BY <1>1, <1>4, <2>1, <2>3
    DEF StartStream, coordinator, AllInv, AllTypeOK, Inv, Configs
  <2>5. Version(config[i]) <= Version(config[i])
    BY <2>1 DEF Heights
  <2> QED BY <1>1, <1>4, <2>3, <2>4, <2>5
          DEF StartStream, coordinator, AllInv, AllTypeOK, Follows, Version
<1>5. ASSUME NEW i \in Indexers, StartExecutor(i) PROVE AllInv'
  <2>1. config[i] \in Configs /\ Version(config[i]) \in Heights
    BY <1>5, SeenFacts, ConfigFacts DEF StartExecutor
  <2>2. AllTypeOK'
    BY <1>1, <1>5, <2>1
    DEF StartExecutor, coordinator, AllInv, AllTypeOK, Inv, Configs
  <2>3. Version(config[i]) <= Version(config[i])
    BY <2>1 DEF Heights
  <2> QED BY <1>1, <1>5, <2>2, <2>3
          DEF StartExecutor, coordinator, AllInv, AllTypeOK, Follows, Version
<1>6. ASSUME NEW i \in Indexers, StopStream(i) \/ StopExecutor(i) PROVE AllInv'
  BY <1>1, <1>6 DEF StopStream, StopExecutor, coordinator, AllInv, AllTypeOK,
                    Inv, Follows, Version
<1>7. ASSUME NEW i \in Indexers, Finish(i) PROVE AllInv'
  BY <1>1, <1>7 DEF Finish, AllInv, AllTypeOK, Inv, Follows, Version
<1>8. CASE CoordinatorCrash
  BY <1>1, <1>8 DEF CoordinatorCrash, AllInv, AllTypeOK, Inv, Follows, Version
<1> QED BY <1>2, <1>3, <1>4, <1>5, <1>6, <1>7, <1>8 DEF Sync

(* The inductive invariant of contract, managers and services. *)
THEOREM AllInvHolds == AllSpec => []AllInv
<1>1. AllInit => AllInv
  BY AllInitInv
<1>2. AllInv /\ [AllNext]_allVars => AllInv'
  <2> SUFFICES ASSUME AllInv, [AllNext]_allVars PROVE AllInv'
    OBVIOUS
  <2>1. CASE Sync /\ UNCHANGED vars
    BY <2>1, SyncStep
  <2>2. CASE [Next]_vars /\ UNCHANGED <<coordinator, streams, executors>>
    BY <2>2, ContractStep
  <2> QED BY <2>1, <2>2 DEF AllNext, allVars
<1> QED BY <1>1, <1>2, PTL DEF AllSpec

(* A stream or an executor of the current version runs what is registered, *)
(* whatever the order of fetches, calls, blocks, removals and crashes.     *)
THEOREM ActiveRunsRegisteredHolds == AllSpec => []ActiveRunsRegistered
<1>1. AllInv => ActiveRunsRegistered
  <2> SUFFICES ASSUME AllInv, NEW i \in Indexers,
                      seen[i[1]][i[2]] # Unregistered
               PROVE  LET c == seen[i[1]][i[2]] IN
                      /\ streams[i].version = Version(c) =>
                           streams[i].rule = c.rule
                      /\ executors[i].version = Version(c) =>
                           executors[i].content = c.content
    BY DEF ActiveRunsRegistered, GetStream, GetExecutor
  <2>1. Version(seen[i[1]][i[2]]) # None
    BY SeenFacts, ConfigFacts DEF Heights, None
  <2> QED BY <2>1 DEF AllInv, Follows, Absent
<1> QED BY <1>1, AllInvHolds, PTL

(* What a manager finds to be of another version is older: no stale config *)
(* rolls an update back.                                                   *)
THEOREM OutdatedIsOlderHolds == AllSpec => []OutdatedIsOlder
<1>1. AllInv => OutdatedIsOlder
  <2> SUFFICES ASSUME AllInv, NEW i \in Indexers, config[i] # Unregistered
               PROVE  /\ streams[i].version <= Version(config[i])
                      /\ executors[i].version <= Version(config[i])
    BY DEF OutdatedIsOlder, GetStream, GetExecutor
  <2>1. Version(config[i]) \in Nat
    BY SeenFacts, ConfigFacts DEF Heights
  <2>2. Absent.version = 0
    BY DEF Absent, None
  <2>3. Follows(i)
    BY DEF AllInv
  <2>4. streams[i].version <= Version(config[i])
    BY <2>1, <2>2, <2>3 DEF Follows
  <2>5. executors[i].version <= Version(config[i])
    BY <2>1, <2>2, <2>3 DEF Follows
  <2> QED BY <2>4, <2>5
<1> QED BY <1>1, AllInvHolds, PTL

(* A running manager finds its Indexer in the registry, removed or not. *)
THEOREM ManagedIsReadHolds == AllSpec => []ManagedIsRead
<1>1. AllInv => ManagedIsRead
  BY DEF AllInv, AllTypeOK, Follows, ManagedIsRead, ReadIndexerFunction
<1> QED BY <1>1, AllInvHolds, PTL

(* The contract in this composition is the contract. *)
THEOREM ImplementsContract == AllSpec => Spec
<1>1. AllInit => Init
  BY DEF AllInit
<1>2. [AllNext]_allVars => [Next]_vars
  BY DEF AllNext, allVars
<1> QED BY <1>1, <1>2, PTL DEF AllSpec, Spec
=============================================================================
