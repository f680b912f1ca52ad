-------------------------- MODULE RegistryContract --------------------------
(***************************************************************************)
(* The registry contract: who may register, remove and administer, and the *)
(* block heights that version an Indexer.  A call that panics changes      *)
(* nothing, so its checks are guards.  Several calls may run in one block; *)
(* the Coordinator only sees the state at the end of a block.              *)
(***************************************************************************)
EXTENDS Naturals

CONSTANTS
  Accounts,       \* account ids
  Functions,      \* function names
  Rules,          \* the filters that are registered
  Contents,       \* code, schema, start block, origin of a registration
  Contract,       \* the account the contract runs on
  InitialOwners,  \* the owners named in the contract
  FirstHeight,    \* height of the block that deploys or migrates
  MaxHeight       \* bound on the height

Statuses == {"Any", "Success", "Fail"}

(* affected_account_id is a comma-separated list of account patterns. *)
RuleType ==
  [kind : {"ActionAny"}, affected : SUBSET STRING, status : Statuses]
  \cup [kind : {"ActionFunctionCall"}, affected : SUBSET STRING,
        status : Statuses, function : STRING]
  \cup [kind : {"Event"}, contract : STRING, event : STRING]

ASSUME ContractAssumption ==
  /\ Rules \subseteq RuleType
  /\ Contract \in Accounts /\ InitialOwners \subseteq Accounts
  /\ FirstHeight \in Nat \ {0} /\ MaxHeight \in Nat
  /\ FirstHeight <= MaxHeight

VARIABLES
  registry,   \* account -> function name -> IndexerConfig or Unregistered
  roles,      \* account_roles
  height,     \* env::block_height()
  seen        \* the registry at the end of the last block

vars == <<registry, roles, height, seen>>

None == 0
Heights == 1 .. MaxHeight
Roles == {"Owner", "User"}

Unregistered ==
  [created |-> None, updated |-> None, deleted |-> None]
Configs ==
  [content : Contents, rule : Rules, created : Heights,
   updated : Heights \cup {None}, deleted : Heights \cup {None}]

Registries == [Accounts -> [Functions -> Configs \cup {Unregistered}]]

(* IndexerConfig::get_registry_version of the Coordinator. *)
Version(config) ==
  IF config.updated = None THEN config.created ELSE config.updated

IsOwner(account) == [account |-> account, role |-> "Owner"] \in roles
HasRole(account) == \E r \in roles : r.account = account

IsWildcard(rule) ==
  /\ rule.kind # "Event"
  /\ rule.affected \cap {"*", "*.near", "*.kaiching", "*.tg"} # {}

-----------------------------------------------------------------------------
(* Slips: deleted_at survives, updated_at is not set, a removed entry is   *)
(* registered as a new one.                                                *)
RegisteredDeleted(old, rule, content) ==
  [content |-> content, rule |-> rule,
   created |-> IF old = Unregistered THEN height ELSE old.created,
   updated |-> IF old = Unregistered THEN None ELSE height,
   deleted |-> old.deleted]

RegisteredUnversioned(old, rule, content) ==
  [content |-> content, rule |-> rule,
   created |-> IF old = Unregistered THEN height ELSE old.created,
   updated |-> IF old = Unregistered THEN None ELSE old.updated,
   deleted |-> None]

RegisteredAnew(old, rule, content) ==
  [content |-> content, rule |-> rule,
   created |-> IF old = Unregistered THEN height ELSE old.created,
   updated |-> IF old = Unregistered \/ old.deleted # None THEN None ELSE height,
   deleted |-> None]

Registered(old, rule, content) ==
  [content |-> content, rule |-> rule,
   created |-> IF old = Unregistered THEN height ELSE old.created,
   updated |-> IF old = Unregistered THEN None ELSE height,
   deleted |-> None]

Register(s, account, function, rule, content) ==
  /\ s # account => IsOwner(s)
  /\ IsWildcard(rule) => IsOwner(s)
  /\ registry' = [registry EXCEPT
                    ![account][function] = Registered(@, rule, content)]
  /\ UNCHANGED <<roles, height, seen>>

(* A deleted function may be removed again, which moves its height. *)
RemoveIndexerFunction(s, account, function) ==
  /\ s # account => IsOwner(s)
  /\ registry[account][function] # Unregistered
  /\ registry' = [registry EXCEPT ![account][function].deleted = height]
  /\ UNCHANGED <<roles, height, seen>>

AddUser(s, account, role) ==
  /\ IsOwner(s)
  /\ ~HasRole(account)
  /\ roles' = roles \cup {[account |-> account, role |-> role]}
  /\ UNCHANGED <<registry, height, seen>>

RemoveUser(s, account) ==
  /\ IsOwner(s)
  /\ HasRole(account)
  /\ ~IsOwner(account)
  /\ roles' = {r \in roles : r.account # account}
  /\ UNCHANGED <<registry, height, seen>>

EndBlock ==
  /\ height < MaxHeight
  /\ height' = height + 1
  /\ seen' = registry
  /\ UNCHANGED <<registry, roles>>

-----------------------------------------------------------------------------
DefaultRoles ==
  {[account |-> a, role |-> "Owner"] : a \in InitialOwners \cup {Contract}}

(* What migrate makes of an old config: it had no deleted_at_block_height. *)
Migrated ==
  {c \in Configs : /\ c.deleted = None
                   /\ c.created <= Version(c)
                   /\ Version(c) < FirstHeight}

Init ==
  /\ registry \in [Accounts -> [Functions -> Migrated \cup {Unregistered}]]
  /\ roles = DefaultRoles
  /\ height = FirstHeight
  /\ seen = registry

Next ==
  \/ \E s, account \in Accounts :
       \/ \E function \in Functions :
            \/ \E rule \in Rules, content \in Contents :
                 Register(s, account, function, rule, content)
            \/ RemoveIndexerFunction(s, account, function)
       \/ \E role \in Roles : AddUser(s, account, role)
       \/ RemoveUser(s, account)
  \/ EndBlock

Spec == Init /\ [][Next]_vars

-----------------------------------------------------------------------------
TypeOK ==
  /\ registry \in Registries /\ seen \in Registries
  /\ roles \subseteq [account : Accounts, role : Roles]
  /\ height \in Heights

(* assert_roles takes the first role it finds: no account ever has two.    *)
OneRolePerAccount ==
  \A r, q \in roles : r.account = q.account => r = q

(* The three heights of an entry agree through updates, removals and new   *)
(* registrations: a removal is later than what it removes, so an entry     *)
(* registered again is not deleted by its past.                            *)
HeightsInOrder ==
  \A a \in Accounts, f \in Functions :
    LET c == registry[a][f] IN
    c # Unregistered =>
      /\ c.created <= Version(c) /\ Version(c) <= height
      /\ c.deleted # None => Version(c) <= c.deleted /\ c.deleted <= height

(* The version alone tells the Coordinator whether to restart a stream or  *)
(* an executor.  Of two blocks' registries, entries of one version are the *)
(* same registration, however many calls each block ran.                   *)
VersionNamesConfig ==
  \A a \in Accounts, f \in Functions :
    LET old == seen[a][f]
        new == registry[a][f]
    IN  old # Unregistered =>
          /\ new # Unregistered
          /\ Version(old) <= Version(new)
          /\ Version(old) = Version(new) =>
               /\ new.content = old.content /\ new.rule = old.rule
               /\ new.deleted = None => old.deleted = None
=============================================================================
