-------------------------------- MODULE Acl --------------------------------
(***************************************************************************)
(* Editing the access control list of a database.                          *)
(*                                                                         *)
(* db.get_acl() reads the stored ACL into a buffer of the C API, which all *)
(* copies of an acl::manager share; nothing reaches the database before    *)
(* save().  An acl::entry is a copy of one entry: its setters write every  *)
(* field of the copy into the buffer.  The buffer knows a role as a bit,   *)
(* the position of the role in the role list; the library translates bits  *)
(* to names and back.  The level stands for the other fields of an entry   *)
(* (flags, type, administration server), which are written the same way.   *)
(***************************************************************************)
EXTENDS Naturals, FiniteSets

CONSTANTS
    Managers,    \* results of get_acl() and create_acl()
    Objects,     \* acl::entry objects
    Names,       \* names of entries
    Levels,      \* access levels
    RoleNames,   \* normalized names of roles
    Capacity,    \* role slots of an ACL
    NoRole, NoEntry, NoAcl, NoManager

ASSUME CapacityAssumption == Capacity \in Nat \ {0}
ASSUME RolesAssumption == IsFiniteSet(RoleNames)

Slots == 0 .. Capacity - 1

\* What the buffer keeps of an entry: its level, and the bits of its roles.
NativeEntries == [level : Levels, privs : SUBSET Slots]
Acls == [entry : [Names -> NativeEntries \cup {NoEntry}], role : [Slots -> RoleNames \cup {NoRole}]]

ASSUME NullAssumption ==
    /\ NoRole \notin RoleNames /\ NoManager \notin Managers
    /\ NoEntry \notin NativeEntries /\ NoAcl \notin Acls

\* access::roles, a vector of names: the names and the number of elements.
RoleLists == [names : SUBSET RoleNames, size : Nat]

VARIABLES
    stored,     \* the ACL of the database
    buffer,     \* buffer[m]: the buffer of manager m
    object      \* object[e]: the fields of entry object e, mgr is NoManager if there is none

vars == <<stored, buffer, object>>

EmptyAcl == [entry |-> [n \in Names |-> NoEntry], role |-> [k \in Slots |-> NoRole]]
NoObject == [mgr |-> NoManager]

Init ==
    /\ stored = EmptyAcl
    /\ buffer = [m \in Managers |-> NoAcl]
    /\ object = [e \in Objects |-> NoObject]

-----------------------------------------------------------------------------
Defined(acl) == {k \in Slots : acl.role[k] # NoRole}

\* roles_from_native(): the names of the bits that are set.
RolesFromNative(acl, privs) ==
    [names |-> {acl.role[k] : k \in privs \cap Defined(acl)},
     size  |-> Cardinality(privs \cap Defined(acl))]

\* roles_to_native(): the bits of the roles that are defined by these names.
RolesToNative(acl, roles) == {k \in Defined(acl) : acl.role[k] \in roles.names}

\* Defect: roles that are not defined are left out silently.
AllRolesExistUnchecked(acl, roles) == TRUE

\* The check of roles_to_native(): it counts bits, and compares with the number of
\* elements asked for.
AllRolesExist(acl, roles) == Cardinality(RolesToNative(acl, roles)) = roles.size

\* A role list as access::add_role() builds it.
RoleList(names) == [names |-> names, size |-> Cardinality(names)]

\* The entry that ACLAddEntry and ACLUpdateEntry write for entry n.
Native(acl, n, level, roles) == [level |-> level, privs |-> RolesToNative(acl, roles)]

\* The object's copy of entry n of manager m.
Copied(m, n) ==
    [mgr |-> m, name |-> n, level |-> buffer[m].entry[n].level,
     roles |-> RolesFromNative(buffer[m], buffer[m].entry[n].privs)]

-----------------------------------------------------------------------------
\* database::get_acl() and create_acl().
Open(m) ==
    /\ buffer[m] = NoAcl
    /\ \E acl \in {stored, EmptyAcl} : buffer' = [buffer EXCEPT ![m] = acl]
    /\ UNCHANGED <<stored, object>>

\* Defect: the buffer is freed although entry objects have copies of the manager.
CloseShared(m) ==
    /\ buffer[m] # NoAcl
    /\ buffer' = [buffer EXCEPT ![m] = NoAcl]
    /\ UNCHANGED <<stored, object>>

\* The last copy of the manager is gone, and its buffer is freed.
Close(m) ==
    /\ buffer[m] # NoAcl
    /\ \A e \in Objects : object[e].mgr # m
    /\ buffer' = [buffer EXCEPT ![m] = NoAcl]
    /\ UNCHANGED <<stored, object>>

\* manager::save() stores the whole buffer.
Save(m) ==
    /\ buffer[m] # NoAcl
    /\ stored' = buffer[m]
    /\ UNCHANGED <<buffer, object>>

\* role_map::set(); insert() takes the first free slot.
SetRole(m, k, r) ==
    /\ buffer[m] # NoAcl
    /\ buffer' = [buffer EXCEPT ![m].role[k] = r]
    /\ UNCHANGED <<stored, object>>

InsertRole(m, r) ==
    /\ buffer[m] # NoAcl
    /\ \E k \in Slots \ Defined(buffer[m]) :
          /\ \A j \in Slots \ Defined(buffer[m]) : k <= j
          /\ SetRole(m, k, r)

\* manager::get_entry(), entries(): a copy of a current entry.
GetEntry(m, n, e) ==
    /\ buffer[m] # NoAcl /\ buffer[m].entry[n] # NoEntry
    /\ object[e] = NoObject
    /\ object' = [object EXCEPT ![e] = Copied(m, n)]
    /\ UNCHANGED <<stored, buffer>>

DropEntry(e) ==
    /\ object[e] # NoObject
    /\ object' = [object EXCEPT ![e] = NoObject]
    /\ UNCHANGED <<stored, buffer>>

\* manager::add_entry(); the C API refuses a name that exists.
AddEntry(m, n, level, roles, e) ==
    /\ buffer[m] # NoAcl /\ buffer[m].entry[n] = NoEntry
    /\ object[e] = NoObject
    /\ AllRolesExist(buffer[m], roles)
    /\ buffer' = [buffer EXCEPT ![m].entry[n] = Native(buffer[m], n, level, roles)]
    /\ object' = [object EXCEPT ![e] = [mgr |-> m, name |-> n, level |-> level, roles |-> roles]]
    /\ UNCHANGED stored

\* manager::update_entry(n, o): all fields of o replace those of entry n, which may
\* get a new name.  It throws when a role is unknown, when there is no entry n, or
\* when there is another entry of the new name.
Updates(n, o) ==
    LET acl == buffer[o.mgr]
    IN  /\ AllRolesExist(acl, o.roles)
        /\ acl.entry[n] # NoEntry
        /\ o.name # n => acl.entry[o.name] = NoEntry
        /\ buffer' = [buffer EXCEPT ![o.mgr].entry =
                        [[acl.entry EXCEPT ![n] = NoEntry]
                           EXCEPT ![o.name] = Native(acl, n, o.level, o.roles)]]

\* Defect: the object is changed whether the update succeeds or not.
SetterAssignsFirst(e, updated) ==
    /\ object[e] # NoObject
    /\ object' = [object EXCEPT ![e] = updated]
    /\ Updates(object[e].name, updated) \/ UNCHANGED buffer
    /\ UNCHANGED stored

\* A setter of the entry object e: the changed copy is written first, and becomes
\* the object's when that has succeeded.
Setter(e, updated) ==
    /\ object[e] # NoObject
    /\ Updates(object[e].name, updated)
    /\ object' = [object EXCEPT ![e] = updated]
    /\ UNCHANGED stored

SetName(e, n) == Setter(e, [object[e] EXCEPT !.name = n])
SetLevel(e, l) == Setter(e, [object[e] EXCEPT !.level = l])
SetAccess(e, l, roles) == Setter(e, [object[e] EXCEPT !.level = l, !.roles = roles])

\* entry::remove(): the object stays, its entry does not.
Remove(e) ==
    /\ object[e] # NoObject
    /\ buffer[object[e].mgr].entry[object[e].name] # NoEntry
    /\ buffer' = [buffer EXCEPT ![object[e].mgr].entry[object[e].name] = NoEntry]
    /\ UNCHANGED <<stored, object>>

ManagerStep(m) ==
    \/ Open(m) \/ Close(m) \/ Save(m)
    \/ \E r \in RoleNames : InsertRole(m, r) \/ \E k \in Slots : SetRole(m, k, r)
    \/ \E n \in Names, e \in Objects :
          \/ GetEntry(m, n, e)
          \/ \E l \in Levels, R \in SUBSET RoleNames : AddEntry(m, n, l, RoleList(R), e)

EntryStep(e) ==
    \/ DropEntry(e) \/ Remove(e)
    \/ object[e] # NoObject /\ \/ \E n \in Names : SetName(e, n)
                               \/ \E l \in Levels : SetLevel(e, l)
                               \/ \E l \in Levels, R \in SUBSET RoleNames :
                                     SetAccess(e, l, RoleList(R))

Next ==
    \/ \E m \in Managers : ManagerStep(m)
    \/ \E e \in Objects : EntryStep(e)

Spec == Init /\ [][Next]_vars

-----------------------------------------------------------------------------
Fields == [mgr : Managers, name : Names, level : Levels, roles : RoleLists]

TypeOK ==
    /\ stored \in Acls
    /\ buffer \in [Managers -> Acls \cup {NoAcl}]
    /\ object \in [Objects -> Fields \cup {NoObject}]
    /\ \A e \in Objects :
          object[e] # NoObject => object[e].roles.size <= Capacity /\ buffer[object[e].mgr] # NoAcl

\* No two slots have the same role name.
DistinctRoles(acl) ==
    \A j, k \in Defined(acl) : acl.role[j] = acl.role[k] => j = k

\* The object e shows what its entry is.
Agrees(e) ==
    LET o == object[e]
        acl == buffer[o.mgr]
    IN  /\ acl.entry[o.name] # NoEntry
        /\ acl.entry[o.name].level = o.level
        /\ RolesFromNative(acl, acl.entry[o.name].privs) = o.roles

\* An object that is changed agrees with its entry afterwards, and it is left alone
\* when the change could not be made.
ChangedObjectAgrees ==
    [][\A e \in Objects :
          (object[e] # NoObject /\ object'[e] \notin {object[e], NoObject}
            /\ DistinctRoles(buffer[object[e].mgr]))
          => Agrees(e)']_vars

\* Changing the level of an entry through an object that agrees with it changes
\* the level and nothing else: the role bits, which are translated to names when the
\* entry is read and translated back when it is written, are the same ones, or the
\* change is refused.  This holds even when two slots have the same name, where
\* translating back finds more bits than there were.
SettingLevelKeepsRoles ==
    [][\A e \in Objects, l \in Levels :
          (object[e] # NoObject /\ Agrees(e) /\ SetLevel(e, l))
          => LET m == object[e].mgr
                 n == object[e].name
             IN  buffer' = [buffer EXCEPT ![m].entry[n].level = l]]_vars

\* add_entry(), set_access(): roles that do not exist are refused.
UnknownRolesRefused ==
    [][\A e \in Objects :
          (object'[e].mgr # NoManager /\ object'[e] # object[e] /\ buffer' # buffer)
          => object'[e].roles.names
               \subseteq {buffer[object'[e].mgr].role[k] : k \in Defined(buffer[object'[e].mgr])}]_vars

\* The same, as far as it is true of the code: when no two slots have the same name.
UnknownRolesRefusedIfDistinct ==
    [][\A e \in Objects :
          (object'[e].mgr # NoManager /\ object'[e] # object[e] /\ buffer' # buffer
             /\ DistinctRoles(buffer[object'[e].mgr]))
          => object'[e].roles.names
               \subseteq {buffer[object'[e].mgr].role[k] : k \in Defined(buffer[object'[e].mgr])}]_vars
=============================================================================
