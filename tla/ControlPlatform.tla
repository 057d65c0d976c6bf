--------------------------- MODULE ControlPlatform ---------------------------
(* What controls the platform: who may do what, which methodologies, packs  *)
(* and factor sets are in force, and which schema.  The components share no *)
(* state with each other; the first state chooses the part that runs, the   *)
(* variables of the others stay None.                                       *)
EXTENDS Integers, FiniteSets

CONSTANTS
    None,
    Parts,           \* the parts that are looked at
    Arrivals(_),     \* part -> bound: requests received
    Sessions,
    Users, Tenants, Members, RoleSets, LockThreshold, MaxAttempts,
    RecoveryCodes,                                                      \* Identity
    Principals,      \* Methodologies and MethodologyPacks
    Sources, Faulty, Importers,                                         \* FactorSets
    PackIds, Owner(_), From(_), To(_),                                  \* MethodologyPacks
    Jobs, Revisions, Manifest, Requested                                \* MigrationControl

VARIABLES
    part, request, received,
    tenants, user, member, role, invitation, session, challenge, reset,
    written, overlapped,                                                \* Identity
    method, contested, overlaps,                                        \* Methodologies
    sets, import_jobs, records, crossings,                              \* FactorSets
    pack, collisions,                                                   \* MethodologyPacks
    job, lock, alembic, revision, evidence, broken                      \* MigrationControl

requests      == <<request, received>>
identityVars  == <<tenants, user, member, role, invitation, session, challenge, reset,
                   written, overlapped>>
methodVars    == <<method, contested, overlaps>>
setVars       == <<sets, import_jobs, records, crossings>>
packVars      == <<pack, collisions>>
migrationVars == <<job, lock, alembic, revision, evidence, broken>>

Accounts == INSTANCE Identity WITH MaxRequests <- Arrivals("identity")

Methods == INSTANCE Methodologies WITH MaxRequests <- Arrivals("methods")

Factors == INSTANCE FactorSets WITH
    MaxRequests <- Arrivals("factors"), Principals <- Importers, jobs <- import_jobs

Packs == INSTANCE MethodologyPacks WITH MaxRequests <- Arrivals("packs"), Packs <- PackIds

Migrations == INSTANCE MigrationControl

(* What there is at the start: memberships, each logged in once.            *)
ASSUME IdentityAssumption ==
    /\ IsFiniteSet(Members) /\ Members \subseteq Tenants \X Users
    /\ RecoveryCodes \in Nat

(* A pack is in effect from a day to a day.                                 *)
ASSUME PackAssumption == \A k \in PackIds : From(k) \in Int /\ To(k) \in Int

(* Revisions are numbered.                                                  *)
ASSUME MigrationAssumption == DOMAIN Manifest \subseteq Nat /\ Revisions \subseteq Nat

(* NULL is nobody and no row.                                               *)
ASSUME NoneAssumption ==
    /\ None \notin Principals /\ None \notin Jobs /\ None \notin BOOLEAN
    /\ None \notin Accounts!UserRows /\ None \notin Packs!PackRows

----------------------------------------------------------------------------
Init ==
    /\ part \in Parts
    /\ IF part = "identity" THEN Accounts!Init
       ELSE /\ tenants = None /\ user = None /\ member = None /\ role = None
            /\ invitation = None /\ session = None /\ challenge = None /\ reset = None
            /\ written = None /\ overlapped = None
    /\ IF part = "methods" THEN Methods!Init
       ELSE /\ method = None /\ contested = None /\ overlaps = None
    /\ IF part = "factors" THEN Factors!Init
       ELSE /\ sets = None /\ import_jobs = None /\ records = None /\ crossings = None
    /\ IF part = "packs" THEN Packs!Init
       ELSE /\ pack = None /\ collisions = None
    /\ IF part = "migrations" THEN Migrations!Init
       ELSE /\ job = None /\ lock = None /\ alembic = None /\ revision = None
            /\ evidence = None /\ broken = None
    /\ request = [s \in Sessions |-> None] /\ received = 0

(* The other parts stay as they are.                                        *)
Rest ==
    /\ UNCHANGED part
    /\ IF part = "identity" THEN TRUE ELSE UNCHANGED identityVars
    /\ IF part = "methods" THEN TRUE ELSE UNCHANGED methodVars
    /\ IF part = "factors" THEN TRUE ELSE UNCHANGED setVars
    /\ IF part = "packs" THEN TRUE ELSE UNCHANGED packVars
    /\ IF part = "migrations" THEN UNCHANGED requests ELSE UNCHANGED migrationVars

AccountsStep   == part = "identity"   /\ Accounts!Next   /\ Rest
MethodsStep    == part = "methods"    /\ Methods!Next    /\ Rest
FactorsStep    == part = "factors"    /\ Factors!Next    /\ Rest
PacksStep      == part = "packs"      /\ Packs!Next      /\ Rest
MigrationsStep == part = "migrations" /\ Migrations!Next /\ Rest

Next == AccountsStep \/ MethodsStep \/ FactorsStep \/ PacksStep \/ MigrationsStep

vars == <<part, requests, identityVars, methodVars, setVars, packVars, migrationVars>>

Spec == Init /\ [][Next]_vars

----------------------------------------------------------------------------
(* Every part that runs keeps its types.                                    *)
TypeOK ==
    /\ part = "identity" => Accounts!TypeOK
    /\ part = "methods" => Methods!TypeOK
    /\ part = "factors" => Factors!TypeOK
    /\ part = "packs" => Packs!TypeOK

(* Requests that do not overlap leave a membership with the roles of the    *)
(* last of them (identity.py:393, :487).                                    *)
RolesAsWritten == part = "identity" => Accounts!RolesAsWritten

(* An accepted invitation has its account and its membership                *)
(* (identity.py:343-404).                                                   *)
AcceptedWhole == part = "identity" => Accounts!AcceptedWhole

(* A refresh session that was exchanged is revoked and leads to one that    *)
(* descends from it (session_auth.py:388-404).                              *)
ExchangedOnce == part = "identity" => Accounts!ExchangedOnce

(* Creator, reviewer and approver of a methodology are three people, unless *)
(* two requests changed the version at once (methodologies.py:172, :201).   *)
ThreePeople == part = "methods" => Methods!ThreePeople

(* One version of a methodology is in force, and one more for each          *)
(* activation that was overtaken (methodologies.py:233-251).                *)
OneActive == part = "methods" => Methods!OneActive

(* A superseded factor set leads to an approved one, unless a supersession  *)
(* or an approval was overtaken by a supersession                           *)
(* (emission_factors.py:308-398).                                           *)
SupersessionEnds == part = "factors" => Factors!SupersessionEnds

(* One approved methodology pack covers a day, unless two approvals were    *)
(* flushed before either was committed (methodology_packs.py:166-184).      *)
PeriodsDisjoint == part = "packs" => Packs!PeriodsDisjoint

(* Two migrations run at once only if one of their jobs lost its lock, timed*)
(* out or was killed (migration_control.py:164).                            *)
OneUpgrade == part = "migrations" => Migrations!OneUpgrade

(* One job at most reports that it brought the schema to a revision         *)
(* (run_controlled_migrations.py:99-135).                                   *)
ClaimedOnce == part = "migrations" => Migrations!ClaimedOnce

(* Whatever jobs, locks and subprocesses are lost, the schema goes up from  *)
(* one reviewed revision to another, a job finds that it has brought it to  *)
(* one that is there and higher than all that others found before, and what *)
(* it claims later, when the schema may have moved on, is what it found, so *)
(* that one job at most claims a revision                                   *)
(* (run_controlled_migrations.py:99-155).                                   *)
HistorySpec ==
    /\ part = "migrations" => Migrations!History!Init
    /\ [][part = "migrations" =>
            Migrations!History!Next \/ UNCHANGED Migrations!History!history]_vars
=============================================================================
