----------------------------- MODULE Acl_proofs -----------------------------
(***************************************************************************)
(* Editing an access control list is right for any number of managers,     *)
(* objects, entries, roles and role slots.                                 *)
(***************************************************************************)
EXTENDS Acl, FunctionTheorems, FiniteSetTheorems, TLAPS

\* The bits of an entry are roles that are defined; roles are renamed, but never
\* taken out of an ACL.
BitsDefined(acl) ==
    \A n \in Names : acl.entry[n] # NoEntry => acl.entry[n].privs \subseteq Defined(acl)

BufferInv ==
    /\ BitsDefined(stored)
    /\ \A m \in Managers : buffer[m] # NoAcl => BitsDefined(buffer[m])

\* A list of roles has at least as many elements as names. An object read from an
\* ACL with two slots of one name has more.
ListInv ==
    \A e \in Objects :
        object[e] # NoObject => /\ IsFiniteSet(object[e].roles.names)
                                /\ Cardinality(object[e].roles.names) <= object[e].roles.size

IInv == TypeOK /\ BufferInv /\ ListInv

-----------------------------------------------------------------------------
\* Bits are a finite set of slots.
LEMMA BitsFinite ==
  ASSUME NEW S \in SUBSET Slots
  PROVE  IsFiniteSet(S) /\ Cardinality(S) \in 0 .. Capacity
<1>1. IsFiniteSet(0 .. Capacity - 1) /\ Cardinality(0 .. Capacity - 1) = Capacity
  BY CapacityAssumption, FS_Interval
<1>2. IsFiniteSet(S) /\ Cardinality(S) <= Capacity
  BY <1>1, FS_Subset DEF Slots
<1> QED
  BY <1>2, FS_CardinalityType, CapacityAssumption

\* RolesToNative finds bits of defined roles.
LEMMA ToNativeType ==
  ASSUME NEW acl \in Acls, NEW roles
  PROVE  /\ RolesToNative(acl, roles) \subseteq Defined(acl)
         /\ Defined(acl) \subseteq Slots
         /\ IsFiniteSet(RolesToNative(acl, roles))
         /\ Cardinality(RolesToNative(acl, roles)) \in 0 .. Capacity
BY BitsFinite DEF RolesToNative, Defined

\* RolesFromNative makes a list that has at least as many elements as names.
LEMMA FromNativeType ==
  ASSUME NEW acl \in Acls, NEW privs \in SUBSET Slots
  PROVE  /\ RolesFromNative(acl, privs) \in RoleLists
         /\ RolesFromNative(acl, privs).size <= Capacity
         /\ IsFiniteSet(RolesFromNative(acl, privs).names)
         /\ Cardinality(RolesFromNative(acl, privs).names)
              <= RolesFromNative(acl, privs).size
<1> DEFINE bits == privs \cap Defined(acl)
           names == {acl.role[k] : k \in bits}
           f == [k \in bits |-> acl.role[k]]
<1>1. bits \in SUBSET Slots
  OBVIOUS
<1>2. IsFiniteSet(bits) /\ Cardinality(bits) \in 0 .. Capacity
  BY <1>1, BitsFinite
<1>3. names \subseteq RoleNames
  BY DEF Defined, Acls
<1>4. f \in Surjection(bits, names)
  BY DEF Surjection
<1>5. IsFiniteSet(names) /\ Cardinality(names) <= Cardinality(bits)
  BY <1>2, <1>4, FS_Surjection
<1>6. RolesFromNative(acl, privs) = [names |-> names, size |-> Cardinality(bits)]
  BY DEF RolesFromNative
<1> HIDE DEF bits, names
<1> QED
  BY <1>2, <1>3, <1>5, <1>6, CapacityAssumption DEF RoleLists

\* When no two slots have one name, a list that passes the check has the names of the
\* bits it is translated to, and only these.
LEMMA ChecksNames ==
  ASSUME NEW acl \in Acls, DistinctRoles(acl), NEW roles \in RoleLists,
         IsFiniteSet(roles.names), Cardinality(roles.names) <= roles.size,
         AllRolesExist(acl, roles)
  PROVE  /\ RolesFromNative(acl, RolesToNative(acl, roles)) = roles
         /\ roles.names \subseteq {acl.role[k] : k \in Defined(acl)}
<1> DEFINE bits == RolesToNative(acl, roles)
           f == [k \in bits |-> acl.role[k]]
<1>1. bits \subseteq Defined(acl) /\ IsFiniteSet(bits) /\ Cardinality(bits) = roles.size
  BY ToNativeType DEF AllRolesExist
<1>2. \A k \in bits : acl.role[k] \in roles.names
  BY DEF RolesToNative
<1>3. f \in Injection(bits, roles.names)
  BY <1>1, <1>2 DEF Injection, IsInjective, DistinctRoles
<1>4. Cardinality(bits) <= Cardinality(roles.names)
  BY <1>3, FS_Injection
<1>5. Cardinality(bits) = Cardinality(roles.names)
  BY <1>1, <1>4, FS_CardinalityType
<1>6. f \in Surjection(bits, roles.names)
  BY <1>3, <1>5, FS_Injection
<1>7. roles.names = {acl.role[k] : k \in bits}
  BY <1>2, <1>6 DEF Surjection
<1>8. bits \cap Defined(acl) = bits
  BY <1>1
<1>9. RolesFromNative(acl, bits) = [names |-> roles.names, size |-> roles.size]
  BY <1>1, <1>7, <1>8 DEF RolesFromNative
<1> HIDE DEF bits
<1>10. RolesFromNative(acl, bits) = roles
  BY <1>9 DEF RoleLists
<1> QED
  BY <1>1, <1>7, <1>10 DEF bits

-----------------------------------------------------------------------------
\* A list that passes the check is as long as the bits it finds.
LEMMA CheckedSize ==
  ASSUME NEW acl \in Acls, NEW roles, AllRolesExist(acl, roles)
  PROVE  roles.size \in 0 .. Capacity
BY ToNativeType DEF AllRolesExist

LEMMA RoleListType ==
  ASSUME NEW R \in SUBSET RoleNames
  PROVE  /\ RoleList(R) \in RoleLists
         /\ IsFiniteSet(RoleList(R).names)
         /\ Cardinality(RoleList(R).names) <= RoleList(R).size
<1>1. IsFiniteSet(R) /\ Cardinality(R) \in Nat
  BY RolesAssumption, FS_Subset, FS_CardinalityType
<1> QED
  BY <1>1 DEF RoleList, RoleLists

\* The fields an object gets when an entry is written through it.
Writable(o) ==
    /\ o \in Fields
    /\ IsFiniteSet(o.roles.names) /\ Cardinality(o.roles.names) <= o.roles.size

\* Replacing one buffer by an ACL keeps what is known of buffers, and leaves the
\* objects with buffers.
LEMMA BufferStep ==
  ASSUME IInv, NEW m \in Managers, NEW acl \in Acls, BitsDefined(acl),
         buffer' = [buffer EXCEPT ![m] = acl], stored' = stored
  PROVE  /\ stored' \in Acls /\ buffer' \in [Managers -> Acls \cup {NoAcl}]
         /\ BufferInv'
         /\ \A k \in Managers : buffer[k] # NoAcl => buffer'[k] # NoAcl
         /\ buffer'[m] = acl
<1>1. stored \in Acls /\ buffer \in [Managers -> Acls \cup {NoAcl}]
  BY DEF IInv, TypeOK
<1>2. acl # NoAcl
  BY NullAssumption
<1>3. \A k \in Managers : buffer'[k] = IF k = m THEN acl ELSE buffer[k]
  BY <1>1
<1>4. BitsDefined(stored) /\ \A k \in Managers : buffer[k] # NoAcl => BitsDefined(buffer[k])
  BY DEF IInv, BufferInv
<1>5. BitsDefined(stored)'
  BY <1>4 DEF BitsDefined, Defined
<1>6. \A k \in Managers : buffer'[k] # NoAcl => BitsDefined(buffer'[k])
  BY <1>3, <1>4
<1>7. BufferInv'
  BY <1>5, <1>6 DEF BufferInv
<1> QED
  BY <1>1, <1>2, <1>3, <1>7

\* Objects keep their fields when buffers are only replaced by others.
LEMMA ObjectsStay ==
  ASSUME IInv, object' = object,
         \A m \in Managers : (\E e \in Objects : object[e].mgr = m) /\ buffer[m] # NoAcl
                               => buffer'[m] # NoAcl
  PROVE  /\ object' \in [Objects -> Fields \cup {NoObject}]
         /\ \A e \in Objects :
              object'[e] # NoObject => object'[e].roles.size <= Capacity
                                         /\ buffer'[object'[e].mgr] # NoAcl
         /\ ListInv'
<1>1. /\ object \in [Objects -> Fields \cup {NoObject}]
      /\ \A e \in Objects : object[e] # NoObject =>
            /\ object[e].mgr \in Managers
            /\ object[e].roles.size <= Capacity /\ buffer[object[e].mgr] # NoAcl
  BY DEF IInv, TypeOK, Fields
<1>2. ListInv'
  BY DEF IInv, ListInv
<1> QED
  BY <1>1, <1>2

\* One object gets fields with a short enough list and a manager with a buffer.
LEMMA ObjectStep ==
  ASSUME IInv, NEW e \in Objects, NEW o, object' = [object EXCEPT ![e] = o],
         Writable(o), o.roles.size <= Capacity, buffer'[o.mgr] # NoAcl,
         \A m \in Managers : buffer[m] # NoAcl => buffer'[m] # NoAcl
  PROVE  /\ object' \in [Objects -> Fields \cup {NoObject}]
         /\ \A d \in Objects :
              object'[d] # NoObject => object'[d].roles.size <= Capacity
                                         /\ buffer'[object'[d].mgr] # NoAcl
         /\ ListInv'
<1>1. /\ object \in [Objects -> Fields \cup {NoObject}]
      /\ \A d \in Objects : object[d] # NoObject =>
            /\ object[d].mgr \in Managers
            /\ object[d].roles.size <= Capacity /\ buffer[object[d].mgr] # NoAcl
  BY DEF IInv, TypeOK, Fields
<1>2. /\ object' \in [Objects -> Fields \cup {NoObject}]
      /\ \A d \in Objects : object'[d] = IF d = e THEN o ELSE object[d]
  BY <1>1 DEF Writable
<1>3. ListInv'
  BY <1>2 DEF IInv, ListInv, Writable
<1> QED
  BY <1>1, <1>2, <1>3

\* An entry is written to the buffer.
LEMMA WriteEntry ==
  ASSUME NEW acl \in Acls, BitsDefined(acl), NEW n \in Names, NEW l \in Levels, NEW roles,
         NEW entry \in [Names -> NativeEntries \cup {NoEntry}],
         \A k \in Names : entry[k] = acl.entry[k] \/ entry[k] = NoEntry
                             \/ entry[k] = Native(acl, n, l, roles)
  PROVE  /\ [acl EXCEPT !.entry = entry] \in Acls
         /\ BitsDefined([acl EXCEPT !.entry = entry])
         /\ Native(acl, n, l, roles) \in NativeEntries
<1>1. [acl EXCEPT !.entry = entry] = [entry |-> entry, role |-> acl.role]
  BY DEF Acls
<1>2. [acl EXCEPT !.entry = entry] \in Acls
  BY <1>1 DEF Acls
<1>3. Native(acl, n, l, roles) \in NativeEntries
      /\ Native(acl, n, l, roles).privs \subseteq Defined(acl)
  BY ToNativeType DEF Native, NativeEntries
<1>4. Defined([acl EXCEPT !.entry = entry]) = Defined(acl)
  BY <1>1 DEF Defined
<1>5. \A k \in Names : entry[k] # NoEntry => entry[k].privs \subseteq Defined(acl)
  BY <1>3 DEF BitsDefined
<1>6. BitsDefined([acl EXCEPT !.entry = entry])
  BY <1>1, <1>4, <1>5 DEF BitsDefined
<1> QED
  BY <1>2, <1>3, <1>6

\* manager::update_entry() in all its parts.
LEMMA UpdateStep ==
  ASSUME IInv, NEW n \in Names, NEW o \in Fields, buffer[o.mgr] # NoAcl, stored' = stored,
         Updates(n, o)
  PROVE  /\ buffer[o.mgr] \in Acls /\ AllRolesExist(buffer[o.mgr], o.roles)
         /\ stored' \in Acls /\ buffer' \in [Managers -> Acls \cup {NoAcl}]
         /\ BufferInv'
         /\ \A k \in Managers : buffer[k] # NoAcl => buffer'[k] # NoAcl
         /\ buffer'[o.mgr].role = buffer[o.mgr].role
         /\ buffer'[o.mgr].entry =
              [[buffer[o.mgr].entry EXCEPT ![n] = NoEntry]
                 EXCEPT ![o.name] = Native(buffer[o.mgr], n, o.level, o.roles)]
         /\ buffer'[o.mgr].entry[o.name] = Native(buffer[o.mgr], n, o.level, o.roles)
         /\ Native(buffer[o.mgr], n, o.level, o.roles) # NoEntry
         /\ buffer' = [buffer EXCEPT ![o.mgr].entry = buffer'[o.mgr].entry]
<1> DEFINE acl == buffer[o.mgr]
           nat == Native(acl, n, o.level, o.roles)
           entry == [[acl.entry EXCEPT ![n] = NoEntry] EXCEPT ![o.name] = nat]
           new == [acl EXCEPT !.entry = entry]
<1>1. /\ acl \in Acls /\ BitsDefined(acl)
      /\ o.mgr \in Managers /\ o.name \in Names /\ o.level \in Levels
  BY DEF IInv, TypeOK, BufferInv, Fields
<1>2. AllRolesExist(acl, o.roles) /\ buffer' = [buffer EXCEPT ![o.mgr].entry = entry]
  BY DEF Updates
<1>3. acl.entry \in [Names -> NativeEntries \cup {NoEntry}]
  BY <1>1 DEF Acls
<1>4. nat \in NativeEntries
  BY <1>1, ToNativeType DEF Native, NativeEntries
<1> HIDE DEF nat
<1>5. /\ entry \in [Names -> NativeEntries \cup {NoEntry}]
      /\ entry[o.name] = nat
      /\ \A k \in Names : entry[k] = acl.entry[k] \/ entry[k] = NoEntry \/ entry[k] = nat
  BY <1>1, <1>3, <1>4
<1> HIDE DEF entry
<1>6. new \in Acls /\ BitsDefined(new)
  BY <1>1, <1>5, WriteEntry DEF nat
<1>7. buffer' = [buffer EXCEPT ![o.mgr] = new]
  BY <1>2
<1>8. new.entry = entry /\ new.role = acl.role
  BY <1>1 DEF Acls
<1> HIDE DEF new
<1>9. /\ stored' \in Acls /\ buffer' \in [Managers -> Acls \cup {NoAcl}]
      /\ BufferInv'
      /\ \A k \in Managers : buffer[k] # NoAcl => buffer'[k] # NoAcl
      /\ buffer'[o.mgr] = new
  BY <1>1, <1>6, <1>7, BufferStep
<1>10. nat # NoEntry
  BY <1>4, NullAssumption
<1> QED
  BY <1>1, <1>2, <1>5, <1>8, <1>9, <1>10 DEF entry, nat

LEMMA InitIInv == Init => IInv
<1> SUFFICES ASSUME Init PROVE IInv
  OBVIOUS
<1>1. EmptyAcl \in Acls /\ \A n \in Names : EmptyAcl.entry[n] = NoEntry
  BY DEF EmptyAcl, Acls
<1>2. BitsDefined(EmptyAcl)
  BY <1>1 DEF BitsDefined
<1>3. TypeOK
  BY <1>1 DEF Init, TypeOK
<1>4. BufferInv /\ ListInv
  BY <1>2 DEF Init, BufferInv, ListInv
<1> QED
  BY <1>3, <1>4 DEF IInv

LEMMA OpenKeeps ==
  ASSUME IInv, NEW m \in Managers, Open(m)
  PROVE  IInv'
<1>1. PICK acl \in {stored, EmptyAcl} : buffer' = [buffer EXCEPT ![m] = acl]
  BY DEF Open
<1>2. stored \in Acls /\ BitsDefined(stored)
  BY DEF IInv, TypeOK, BufferInv
<1>3. EmptyAcl \in Acls /\ BitsDefined(EmptyAcl)
  BY DEF EmptyAcl, Acls, BitsDefined
<1>4. acl \in Acls /\ BitsDefined(acl) /\ stored' = stored /\ object' = object
  BY <1>1, <1>2, <1>3 DEF Open
<1>5. /\ stored' \in Acls /\ buffer' \in [Managers -> Acls \cup {NoAcl}]
      /\ BufferInv'
      /\ \A k \in Managers : buffer[k] # NoAcl => buffer'[k] # NoAcl
  BY <1>1, <1>4, BufferStep
<1>6. TypeOK' /\ ListInv'
  BY <1>4, <1>5, ObjectsStay DEF TypeOK
<1> QED
  BY <1>5, <1>6 DEF IInv

LEMMA CloseKeeps ==
  ASSUME IInv, NEW m \in Managers, Close(m)
  PROVE  IInv'
<1>1. /\ stored' = stored /\ object' = object /\ buffer' = [buffer EXCEPT ![m] = NoAcl]
      /\ \A e \in Objects : object[e].mgr # m
  BY DEF Close
<1>2. stored \in Acls /\ buffer \in [Managers -> Acls \cup {NoAcl}]
  BY DEF IInv, TypeOK
<1>3. buffer' \in [Managers -> Acls \cup {NoAcl}]
      /\ \A k \in Managers : buffer'[k] = IF k = m THEN NoAcl ELSE buffer[k]
  BY <1>1, <1>2
<1>4. TypeOK' /\ ListInv'
  BY <1>1, <1>2, <1>3, ObjectsStay DEF TypeOK
<1>5. BitsDefined(stored) /\ \A k \in Managers : buffer[k] # NoAcl => BitsDefined(buffer[k])
  BY DEF IInv, BufferInv
<1>6. BitsDefined(stored)'
  BY <1>1, <1>5 DEF BitsDefined, Defined
<1>7. BufferInv'
  BY <1>3, <1>5, <1>6 DEF BufferInv
<1> QED
  BY <1>4, <1>7 DEF IInv

LEMMA SaveKeeps ==
  ASSUME IInv, NEW m \in Managers, Save(m)
  PROVE  IInv'
<1>1. buffer[m] # NoAcl /\ stored' = buffer[m] /\ buffer' = buffer /\ object' = object
  BY DEF Save
<1>2. buffer[m] \in Acls /\ buffer \in [Managers -> Acls \cup {NoAcl}]
  BY <1>1 DEF IInv, TypeOK
<1>3. \A k \in Managers : buffer[k] # NoAcl => BitsDefined(buffer[k])
  BY DEF IInv, BufferInv
<1>4. BitsDefined(stored')
  BY <1>1, <1>3
<1>5. \A k \in Managers : buffer'[k] # NoAcl => BitsDefined(buffer'[k])
  BY <1>1, <1>3
<1>6. BufferInv'
  BY <1>4, <1>5 DEF BufferInv
<1>7. TypeOK' /\ ListInv'
  BY <1>1, <1>2, ObjectsStay DEF TypeOK
<1> QED
  BY <1>6, <1>7 DEF IInv

LEMMA SetRoleKeeps ==
  ASSUME IInv, NEW m \in Managers, NEW k \in Slots, NEW r \in RoleNames, SetRole(m, k, r)
  PROVE  IInv'
<1> DEFINE acl == buffer[m]
           role == [acl.role EXCEPT ![k] = r]
           new == [acl EXCEPT !.role = role]
<1>1. acl # NoAcl /\ stored' = stored /\ object' = object /\ buffer' = [buffer EXCEPT ![m] = new]
  BY DEF SetRole
<1>2. acl \in Acls /\ BitsDefined(acl)
  BY <1>1 DEF IInv, TypeOK, BufferInv
<1>3. /\ new = [entry |-> acl.entry, role |-> role]
      /\ role \in [Slots -> RoleNames \cup {NoRole}]
      /\ \A j \in Slots : acl.role[j] # NoRole => role[j] # NoRole
  BY <1>2, NullAssumption DEF Acls
<1> HIDE DEF role
<1>4. new \in Acls /\ new.entry = acl.entry /\ Defined(acl) \subseteq Defined(new)
  BY <1>2, <1>3 DEF Acls, Defined
<1> HIDE DEF new
<1>5. BitsDefined(new)
  BY <1>2, <1>4 DEF BitsDefined
<1>6. /\ stored' \in Acls /\ buffer' \in [Managers -> Acls \cup {NoAcl}]
      /\ BufferInv'
      /\ \A j \in Managers : buffer[j] # NoAcl => buffer'[j] # NoAcl
  BY <1>1, <1>4, <1>5, BufferStep
<1>7. TypeOK' /\ ListInv'
  BY <1>1, <1>6, ObjectsStay DEF TypeOK
<1> QED
  BY <1>6, <1>7 DEF IInv

LEMMA GetEntryKeeps ==
  ASSUME IInv, NEW m \in Managers, NEW n \in Names, NEW e \in Objects, GetEntry(m, n, e)
  PROVE  IInv'
<1> DEFINE acl == buffer[m]
           o == Copied(m, n)
<1>1. /\ acl # NoAcl /\ acl.entry[n] # NoEntry
      /\ object' = [object EXCEPT ![e] = o] /\ stored' = stored /\ buffer' = buffer
  BY DEF GetEntry
<1>2. acl \in Acls /\ acl.entry[n] \in NativeEntries
  BY <1>1 DEF IInv, TypeOK, Acls
<1>3. acl.entry[n].level \in Levels /\ acl.entry[n].privs \in SUBSET Slots
  BY <1>2 DEF NativeEntries
<1>4. o = [mgr |-> m, name |-> n, level |-> acl.entry[n].level,
           roles |-> RolesFromNative(acl, acl.entry[n].privs)]
  BY DEF Copied
<1>5. Writable(o) /\ o.roles.size <= Capacity /\ o.mgr = m
  BY <1>2, <1>3, <1>4, FromNativeType DEF Writable, Fields
<1> HIDE DEF o
<1>6. /\ object' \in [Objects -> Fields \cup {NoObject}]
      /\ \A d \in Objects :
           object'[d] # NoObject => object'[d].roles.size <= Capacity
                                      /\ buffer'[object'[d].mgr] # NoAcl
      /\ ListInv'
  BY <1>1, <1>5, ObjectStep
<1>7. TypeOK'
  BY <1>1, <1>6 DEF IInv, TypeOK
<1>8. BufferInv'
  BY <1>1 DEF IInv, BufferInv, BitsDefined, Defined
<1> QED
  BY <1>6, <1>7, <1>8 DEF IInv

LEMMA DropEntryKeeps ==
  ASSUME IInv, NEW e \in Objects, DropEntry(e)
  PROVE  IInv'
<1>1. object' = [object EXCEPT ![e] = NoObject] /\ stored' = stored /\ buffer' = buffer
  BY DEF DropEntry
<1>2. TypeOK' /\ ListInv'
  BY <1>1 DEF IInv, TypeOK, ListInv
<1>3. BufferInv'
  BY <1>1 DEF IInv, BufferInv, BitsDefined, Defined
<1> QED
  BY <1>2, <1>3 DEF IInv

LEMMA AddEntryKeeps ==
  ASSUME IInv, NEW m \in Managers, NEW n \in Names, NEW e \in Objects, NEW l \in Levels,
         NEW R \in SUBSET RoleNames, AddEntry(m, n, l, RoleList(R), e)
  PROVE  IInv'
<1> DEFINE acl == buffer[m]
           roles == RoleList(R)
           nat == Native(acl, n, l, roles)
           entry == [acl.entry EXCEPT ![n] = nat]
           new == [acl EXCEPT !.entry = entry]
           o == [mgr |-> m, name |-> n, level |-> l, roles |-> roles]
<1>1. /\ acl # NoAcl /\ AllRolesExist(acl, roles) /\ stored' = stored
      /\ buffer' = [buffer EXCEPT ![m] = new] /\ object' = [object EXCEPT ![e] = o]
  BY DEF AddEntry
<1>2. acl \in Acls /\ BitsDefined(acl)
  BY <1>1 DEF IInv, TypeOK, BufferInv
<1>3. /\ roles \in RoleLists /\ IsFiniteSet(roles.names)
      /\ Cardinality(roles.names) <= roles.size /\ roles.size \in 0 .. Capacity
  BY <1>1, <1>2, RoleListType, CheckedSize
<1> HIDE DEF roles
<1>4. Writable(o) /\ o.roles.size <= Capacity /\ o.mgr = m
  BY <1>3, CapacityAssumption DEF Writable, Fields
<1> HIDE DEF o
<1>5. nat \in NativeEntries
  BY <1>2, ToNativeType DEF Native, NativeEntries
<1> HIDE DEF nat
<1>6. /\ entry \in [Names -> NativeEntries \cup {NoEntry}]
      /\ \A k \in Names : entry[k] = acl.entry[k] \/ entry[k] = NoEntry \/ entry[k] = nat
  BY <1>2, <1>5 DEF Acls
<1> HIDE DEF entry
<1>7. new \in Acls /\ BitsDefined(new)
  BY <1>2, <1>6, WriteEntry DEF nat
<1> HIDE DEF new
<1>8. /\ stored' \in Acls /\ buffer' \in [Managers -> Acls \cup {NoAcl}]
      /\ BufferInv'
      /\ \A k \in Managers : buffer[k] # NoAcl => buffer'[k] # NoAcl
  BY <1>1, <1>7, BufferStep
<1>9. TypeOK' /\ ListInv'
  BY <1>1, <1>4, <1>8, ObjectStep DEF TypeOK
<1> QED
  BY <1>8, <1>9 DEF IInv

LEMMA SetterKeeps ==
  ASSUME IInv, NEW e \in Objects, NEW o, Writable(o), o.mgr = object[e].mgr, Setter(e, o)
  PROVE  IInv'
<1>1. /\ object[e] # NoObject /\ Updates(object[e].name, o) /\ stored' = stored
      /\ object' = [object EXCEPT ![e] = o]
  BY DEF Setter
<1>2. object[e].name \in Names /\ o \in Fields /\ buffer[o.mgr] # NoAcl
  BY <1>1 DEF IInv, TypeOK, Fields, Writable
<1>3. /\ buffer[o.mgr] \in Acls /\ AllRolesExist(buffer[o.mgr], o.roles)
      /\ stored' \in Acls /\ buffer' \in [Managers -> Acls \cup {NoAcl}]
      /\ BufferInv'
      /\ \A k \in Managers : buffer[k] # NoAcl => buffer'[k] # NoAcl
  BY <1>1, <1>2, UpdateStep
<1>4. o.roles.size <= Capacity /\ buffer'[o.mgr] # NoAcl
  BY <1>2, <1>3, CheckedSize, CapacityAssumption DEF Fields
<1>5. TypeOK' /\ ListInv'
  BY <1>1, <1>3, <1>4, ObjectStep DEF TypeOK
<1> QED
  BY <1>3, <1>5 DEF IInv

\* The three setters write fields with a list of roles that fits.
LEMMA SettersWrite ==
  ASSUME IInv, NEW e \in Objects, object[e] # NoObject
  PROVE  /\ \A n \in Names : /\ Writable([object[e] EXCEPT !.name = n])
                             /\ [object[e] EXCEPT !.name = n].mgr = object[e].mgr
         /\ \A l \in Levels : /\ Writable([object[e] EXCEPT !.level = l])
                              /\ [object[e] EXCEPT !.level = l].mgr = object[e].mgr
         /\ \A l \in Levels, R \in SUBSET RoleNames :
              /\ Writable([object[e] EXCEPT !.level = l, !.roles = RoleList(R)])
              /\ [object[e] EXCEPT !.level = l, !.roles = RoleList(R)].mgr = object[e].mgr
<1> DEFINE o == object[e]
<1>1. /\ o \in Fields /\ IsFiniteSet(o.roles.names)
      /\ Cardinality(o.roles.names) <= o.roles.size
  BY DEF IInv, TypeOK, ListInv
<1>2. o = [mgr |-> o.mgr, name |-> o.name, level |-> o.level, roles |-> o.roles]
  BY <1>1 DEF Fields
<1>3. ASSUME NEW n \in Names
      PROVE  Writable([o EXCEPT !.name = n]) /\ [o EXCEPT !.name = n].mgr = o.mgr
  BY <1>1 DEF Writable, Fields
<1>4. ASSUME NEW l \in Levels
      PROVE  Writable([o EXCEPT !.level = l]) /\ [o EXCEPT !.level = l].mgr = o.mgr
  BY <1>1 DEF Writable, Fields
<1>5. ASSUME NEW l \in Levels, NEW R \in SUBSET RoleNames
      PROVE  /\ Writable([o EXCEPT !.level = l, !.roles = RoleList(R)])
             /\ [o EXCEPT !.level = l, !.roles = RoleList(R)].mgr = o.mgr
  BY <1>1, RoleListType DEF Writable, Fields
<1> QED
  BY <1>3, <1>4, <1>5

LEMMA RemoveKeeps ==
  ASSUME IInv, NEW e \in Objects, Remove(e)
  PROVE  IInv'
<1> DEFINE m == object[e].mgr
           n == object[e].name
           acl == buffer[m]
           entry == [acl.entry EXCEPT ![n] = NoEntry]
           new == [acl EXCEPT !.entry = entry]
<1>1. /\ object[e] # NoObject /\ stored' = stored /\ object' = object
      /\ buffer' = [buffer EXCEPT ![m] = new]
  BY DEF Remove
<1>2. m \in Managers /\ n \in Names /\ acl # NoAcl /\ object[e].level \in Levels
  BY <1>1 DEF IInv, TypeOK, Fields
<1>3. acl \in Acls /\ BitsDefined(acl)
  BY <1>2 DEF IInv, TypeOK, BufferInv
<1>4. /\ entry \in [Names -> NativeEntries \cup {NoEntry}]
      /\ \A k \in Names : entry[k] = acl.entry[k] \/ entry[k] = NoEntry
  BY <1>3 DEF Acls
<1> HIDE DEF entry
<1>5. new \in Acls /\ BitsDefined(new)
  BY <1>2, <1>3, <1>4, WriteEntry
<1> HIDE DEF new
<1>6. /\ stored' \in Acls /\ buffer' \in [Managers -> Acls \cup {NoAcl}]
      /\ BufferInv'
      /\ \A k \in Managers : buffer[k] # NoAcl => buffer'[k] # NoAcl
  BY <1>1, <1>2, <1>5, BufferStep
<1>7. TypeOK' /\ ListInv'
  BY <1>1, <1>6, ObjectsStay DEF TypeOK
<1> QED
  BY <1>6, <1>7 DEF IInv

\* Every step is a change of a manager that leaves the objects alone, or a step of one
\* object.
LEMMA StepCases ==
  ASSUME IInv, Next
  PROVE  \/ \E m \in Managers : \/ Open(m) \/ Close(m) \/ Save(m)
                                \/ \E k \in Slots, r \in RoleNames : SetRole(m, k, r)
         \/ \E m \in Managers, n \in Names, e \in Objects :
              \/ GetEntry(m, n, e)
              \/ \E l \in Levels, R \in SUBSET RoleNames : AddEntry(m, n, l, RoleList(R), e)
         \/ \E e \in Objects :
              \/ DropEntry(e) \/ Remove(e)
              \/ \E o : Writable(o) /\ o.mgr = object[e].mgr /\ Setter(e, o)
<1>1. ASSUME NEW m \in Managers, NEW r \in RoleNames, InsertRole(m, r)
      PROVE  \E k \in Slots : SetRole(m, k, r)
  BY <1>1 DEF InsertRole
<1>2. ASSUME NEW e \in Objects, object[e] # NoObject,
             \/ \E n \in Names : SetName(e, n)
             \/ \E l \in Levels : SetLevel(e, l)
             \/ \E l \in Levels, R \in SUBSET RoleNames : SetAccess(e, l, RoleList(R))
      PROVE  \E o : Writable(o) /\ o.mgr = object[e].mgr /\ Setter(e, o)
  BY <1>2, SettersWrite DEF SetName, SetLevel, SetAccess
<1>3. ASSUME NEW m \in Managers, ManagerStep(m)
      PROVE  \/ \/ Open(m) \/ Close(m) \/ Save(m)
                \/ \E k \in Slots, r \in RoleNames : SetRole(m, k, r)
             \/ \E n \in Names, e \in Objects :
                   \/ GetEntry(m, n, e)
                   \/ \E l \in Levels, R \in SUBSET RoleNames :
                         AddEntry(m, n, l, RoleList(R), e)
  BY <1>1, <1>3 DEF ManagerStep
<1>4. ASSUME NEW e \in Objects, EntryStep(e)
      PROVE  \/ DropEntry(e) \/ Remove(e)
             \/ \E o : Writable(o) /\ o.mgr = object[e].mgr /\ Setter(e, o)
  BY <1>2, <1>4 DEF EntryStep
<1> QED
  BY <1>3, <1>4 DEF Next

LEMMA NextIInv == IInv /\ [Next]_vars => IInv'
<1> SUFFICES ASSUME IInv, [Next]_vars PROVE IInv'
  OBVIOUS
<1>1. CASE UNCHANGED vars
  BY <1>1 DEF IInv, TypeOK, BufferInv, BitsDefined, ListInv, Defined, vars
<1>2. CASE Next
  <2>1. ASSUME NEW m \in Managers,
               \/ Open(m) \/ Close(m) \/ Save(m)
               \/ \E k \in Slots, r \in RoleNames : SetRole(m, k, r)
        PROVE  IInv'
    BY <2>1, OpenKeeps, CloseKeeps, SaveKeeps, SetRoleKeeps
  <2>2. ASSUME NEW m \in Managers, NEW n \in Names, NEW e \in Objects,
               \/ GetEntry(m, n, e)
               \/ \E l \in Levels, R \in SUBSET RoleNames : AddEntry(m, n, l, RoleList(R), e)
        PROVE  IInv'
    BY <2>2, GetEntryKeeps, AddEntryKeeps
  <2>3. ASSUME NEW e \in Objects,
               \/ DropEntry(e) \/ Remove(e)
               \/ \E o : Writable(o) /\ o.mgr = object[e].mgr /\ Setter(e, o)
        PROVE  IInv'
    BY <2>3, DropEntryKeeps, RemoveKeeps, SetterKeeps
  <2> QED
    BY <1>2, <2>1, <2>2, <2>3, StepCases
<1> QED
  BY <1>1, <1>2

LEMMA Inductive == Spec => []IInv
BY InitIInv, NextIInv, PTL DEF Spec

-----------------------------------------------------------------------------
\* What can change an object: it is dropped, taken from the buffer, or written to it.
LEMMA ObjectChanges ==
  ASSUME IInv, Next, NEW e \in Objects, object'[e] # object[e]
  PROVE  \/ object'[e] = NoObject
         \/ object[e] = NoObject /\ buffer' = buffer
         \/ \E m \in Managers, n \in Names, l \in Levels, R \in SUBSET RoleNames :
               AddEntry(m, n, l, RoleList(R), e)
         \/ \E o : Writable(o) /\ o.mgr = object[e].mgr /\ Setter(e, o)
<1>1. object \in [Objects -> Fields \cup {NoObject}]
  BY DEF IInv, TypeOK
<1>2. ASSUME NEW m \in Managers,
             \/ Open(m) \/ Close(m) \/ Save(m)
             \/ \E k \in Slots, r \in RoleNames : SetRole(m, k, r)
      PROVE  FALSE
  BY <1>2 DEF Open, Close, Save, SetRole
<1>3. ASSUME NEW m \in Managers, NEW n \in Names, NEW d \in Objects, GetEntry(m, n, d)
      PROVE  object[e] = NoObject /\ buffer' = buffer
  BY <1>1, <1>3 DEF GetEntry
<1>4. ASSUME NEW m \in Managers, NEW n \in Names, NEW d \in Objects, NEW l \in Levels,
             NEW R \in SUBSET RoleNames, AddEntry(m, n, l, RoleList(R), d)
      PROVE  AddEntry(m, n, l, RoleList(R), e)
  <2>1. d = e
    BY <1>1, <1>4 DEF AddEntry
  <2> QED
    BY <1>4, <2>1
<1>5. ASSUME NEW d \in Objects, DropEntry(d) \/ Remove(d)
      PROVE  object'[e] = NoObject
  BY <1>1, <1>5 DEF DropEntry, Remove
<1>6. ASSUME NEW d \in Objects, NEW o, Writable(o), o.mgr = object[d].mgr, Setter(d, o)
      PROVE  Writable(o) /\ o.mgr = object[e].mgr /\ Setter(e, o)
  <2>1. d = e
    BY <1>1, <1>6 DEF Setter
  <2> QED
    BY <1>6, <2>1
<1> QED
  BY <1>2, <1>3, <1>4, <1>5, <1>6, StepCases

\* What a setter has done, when no two slots have one name.
LEMMA SetterAgrees ==
  ASSUME IInv, NEW e \in Objects, NEW o, Writable(o), o.mgr = object[e].mgr, Setter(e, o),
         DistinctRoles(buffer[o.mgr])
  PROVE  /\ Agrees(e)'
         /\ object'[e] = o
         /\ o.roles.names \subseteq {buffer[o.mgr].role[k] : k \in Defined(buffer[o.mgr])}
<1> DEFINE acl == buffer[o.mgr]
           nat == Native(acl, object[e].name, o.level, o.roles)
<1>1. /\ object[e] # NoObject /\ Updates(object[e].name, o) /\ stored' = stored
      /\ object' = [object EXCEPT ![e] = o] /\ object \in [Objects -> Fields \cup {NoObject}]
  BY DEF Setter, IInv, TypeOK
<1>2. /\ object[e].name \in Names /\ acl # NoAcl /\ object'[e] = o
      /\ o \in Fields /\ o.roles \in RoleLists
      /\ IsFiniteSet(o.roles.names) /\ Cardinality(o.roles.names) <= o.roles.size
  BY <1>1 DEF IInv, TypeOK, Fields, Writable
<1>3. /\ acl \in Acls /\ AllRolesExist(acl, o.roles)
      /\ buffer'[o.mgr].role = acl.role
      /\ buffer'[o.mgr].entry[o.name] = nat /\ nat # NoEntry
  BY <1>1, <1>2, UpdateStep
<1>4. /\ RolesFromNative(acl, RolesToNative(acl, o.roles)) = o.roles
      /\ o.roles.names \subseteq {acl.role[k] : k \in Defined(acl)}
  BY <1>2, <1>3, ChecksNames
<1>5. nat.level = o.level /\ nat.privs = RolesToNative(acl, o.roles)
  BY DEF Native
<1> HIDE DEF nat
<1>6. RolesFromNative(buffer'[o.mgr], nat.privs) = o.roles
  BY <1>3, <1>4, <1>5 DEF RolesFromNative, Defined
<1>7. Agrees(e)'
  BY <1>2, <1>3, <1>5, <1>6 DEF Agrees
<1> QED
  BY <1>2, <1>4, <1>7

\* An object that is added names roles of the ACL only.
LEMMA AddingNamesRoles ==
  ASSUME IInv, NEW m \in Managers, NEW n \in Names, NEW l \in Levels, NEW e \in Objects,
         NEW R \in SUBSET RoleNames, AddEntry(m, n, l, RoleList(R), e),
         DistinctRoles(buffer[m])
  PROVE  /\ object[e] = NoObject /\ object'[e].mgr = m
         /\ object'[e].roles.names \subseteq {buffer[m].role[k] : k \in Defined(buffer[m])}
<1>1. /\ object \in [Objects -> Fields \cup {NoObject}] /\ buffer[m] # NoAcl
      /\ AllRolesExist(buffer[m], RoleList(R)) /\ object[e] = NoObject
      /\ object'[e] = [mgr |-> m, name |-> n, level |-> l, roles |-> RoleList(R)]
  BY DEF IInv, TypeOK, AddEntry
<1>2. buffer[m] \in Acls
  BY <1>1 DEF IInv, TypeOK
<1>3. RoleList(R).names \subseteq {buffer[m].role[k] : k \in Defined(buffer[m])}
  BY <1>1, <1>2, RoleListType, ChecksNames
<1> QED
  BY <1>1, <1>3

\* The types hold for every number of managers, objects, names, roles and slots: a
\* buffer is not freed while an entry object refers to it (acl/manager.cpp).
THEOREM TypeCorrect == Spec => []TypeOK
<1>1. IInv => TypeOK
  BY DEF IInv
<1> QED
  BY <1>1, Inductive, PTL

\* The fields of an object whose entry was written are the fields of the entry
\* (setters of acl::entry and acl::access, acl/entry.cpp).
THEOREM WrittenObjectsAgree == Spec => ChangedObjectAgrees
<1> DEFINE Change(e) == object[e] # NoObject /\ object'[e] \notin {object[e], NoObject}
                          /\ DistinctRoles(buffer[object[e].mgr])
<1>1. ASSUME IInv, [Next]_vars, NEW e \in Objects, Change(e)
      PROVE  Agrees(e)'
  <2>1. Next /\ object'[e] # object[e]
    BY <1>1 DEF vars
  <2>2. CASE \E m \in Managers, n \in Names, l \in Levels, R \in SUBSET RoleNames :
               AddEntry(m, n, l, RoleList(R), e)
    BY <1>1, <2>2 DEF AddEntry
  <2>3. CASE \E o : Writable(o) /\ o.mgr = object[e].mgr /\ Setter(e, o)
    <3>1. PICK o : Writable(o) /\ o.mgr = object[e].mgr /\ Setter(e, o)
      BY <2>3
    <3>2. DistinctRoles(buffer[o.mgr])
      BY <1>1, <3>1
    <3> QED
      BY <1>1, <3>1, <3>2, SetterAgrees
  <2> QED
    BY <1>1, <2>1, <2>2, <2>3, ObjectChanges
<1>2. IInv /\ [Next]_vars => [\A e \in Objects : Change(e) => Agrees(e)']_vars
  BY <1>1
<1> QED
  BY <1>2, Inductive, PTL DEF Spec, ChangedObjectAgrees

\* The roles of an entry survive a change of its level, also when two slots have one
\* name: the bits that are found again include the old ones, and the check compares
\* their numbers (roles_from_native() and roles_to_native(), acl/manager.cpp).
THEOREM LevelChangesKeepRoles == Spec => SettingLevelKeepsRoles
<1> DEFINE Keeps(e, l) ==
             (object[e] # NoObject /\ Agrees(e) /\ SetLevel(e, l))
             => LET m == object[e].mgr
                    n == object[e].name
                IN  buffer' = [buffer EXCEPT ![m].entry[n].level = l]
<1>1. ASSUME IInv, NEW e \in Objects, NEW l \in Levels,
             object[e] # NoObject, Agrees(e), SetLevel(e, l)
      PROVE  buffer' = [buffer EXCEPT ![object[e].mgr].entry[object[e].name].level = l]
  <2> DEFINE m == object[e].mgr
             n == object[e].name
             acl == buffer[m]
             was == acl.entry[n]
             o == [object[e] EXCEPT !.level = l]
             nat == Native(acl, n, o.level, o.roles)
  <2>1. object[e] \in Fields /\ m \in Managers /\ n \in Names /\ acl # NoAcl
    BY <1>1 DEF IInv, TypeOK, Fields
  <2>2. /\ o.mgr = m /\ o.name = n /\ o.level = l /\ o.roles = object[e].roles
        /\ o \in Fields
    BY <2>1 DEF Fields
  <2>3. Updates(n, o) /\ stored' = stored
    BY <1>1 DEF SetLevel, Setter
  <2> HIDE DEF o
  <2>4. /\ acl \in Acls /\ AllRolesExist(acl, o.roles)
        /\ buffer'[m].entry = [[acl.entry EXCEPT ![n] = NoEntry] EXCEPT ![n] = nat]
        /\ buffer' = [buffer EXCEPT ![m].entry = buffer'[m].entry]
    BY <1>1, <2>1, <2>2, <2>3, UpdateStep
  <2>5. BitsDefined(acl)
    BY <1>1, <2>1 DEF IInv, BufferInv
  <2>6. was # NoEntry /\ RolesFromNative(acl, was.privs) = o.roles
    BY <1>1, <2>2 DEF Agrees
  <2>7. was \in NativeEntries /\ was.privs \subseteq Defined(acl)
    BY <2>1, <2>4, <2>5, <2>6 DEF Acls, BitsDefined
  <2>8. was.privs = RolesToNative(acl, o.roles)
    <3> HIDE DEF was
    <3> DEFINE bits == was.privs \cap Defined(acl)
    <3>1. bits = was.privs
      BY <2>7
    <3>2. o.roles.names = {acl.role[k] : k \in bits} /\ o.roles.size = Cardinality(bits)
      BY <2>6 DEF RolesFromNative
    <3> HIDE DEF bits
    <3>3. was.privs \subseteq RolesToNative(acl, o.roles)
      BY <2>7, <3>1, <3>2 DEF RolesToNative
    <3>4. Cardinality(was.privs) = Cardinality(RolesToNative(acl, o.roles))
      BY <2>4, <3>1, <3>2 DEF AllRolesExist
    <3> QED
      BY <2>4, <3>3, <3>4, ToNativeType, FS_Subset
  <2>9. nat = [was EXCEPT !.level = l]
    <3>1. nat = [level |-> l, privs |-> was.privs]
      BY <2>2, <2>8 DEF Native
    <3> HIDE DEF was
    <3>2. [was EXCEPT !.level = l] = [level |-> l, privs |-> was.privs]
      BY <2>7 DEF NativeEntries
    <3> HIDE DEF nat
    <3> QED
      BY <3>1, <3>2
  <2> HIDE DEF nat
  <2>10. buffer'[m].entry = [acl.entry EXCEPT ![n] = nat]
    BY <2>1, <2>4 DEF Acls
  <2>11. [acl.entry EXCEPT ![n] = nat] = [acl.entry EXCEPT ![n].level = l]
    BY <2>9
  <2> QED
    BY <2>4, <2>10, <2>11
<1>2. ASSUME IInv, [Next]_vars, NEW e \in Objects, NEW l \in Levels
      PROVE  Keeps(e, l)
  BY <1>1, <1>2
<1>3. IInv /\ [Next]_vars => [\A e \in Objects, l \in Levels : Keeps(e, l)]_vars
  BY <1>2
<1> QED
  BY <1>3, Inductive, PTL DEF Spec, SettingLevelKeepsRoles

\* Setting the level of an entry that was not changed behind the object passes the check of
\* roles_to_native() exactly when no other slot has the name of one of its roles: with
\* one name in two slots a legal change may be refused, and otherwise none is.
UnchangedRolesPass ==
    \A e \in Objects :
        object[e] # NoObject /\ Agrees(e) =>
            LET acl == buffer[object[e].mgr]
                privs == acl.entry[object[e].name].privs
            IN  AllRolesExist(acl, object[e].roles)
                    <=> \A j \in privs, k \in Defined(acl) :
                            acl.role[j] = acl.role[k] => k \in privs

\* What reading an entry and writing it back does to its roles (roles_from_native() and
\* roles_to_native(), acl/manager.cpp).
THEOREM RolesSurviveTheRoundTrip == Spec => []UnchangedRolesPass
<1>1. ASSUME IInv, NEW e \in Objects, object[e] # NoObject, Agrees(e)
      PROVE  LET acl == buffer[object[e].mgr]
                 privs == acl.entry[object[e].name].privs
             IN  AllRolesExist(acl, object[e].roles)
                     <=> \A j \in privs, k \in Defined(acl) :
                             acl.role[j] = acl.role[k] => k \in privs
  <2> DEFINE acl == buffer[object[e].mgr]
             was == acl.entry[object[e].name]
             roles == object[e].roles
             found == RolesToNative(acl, roles)
  <2>1. object[e] \in Fields /\ acl # NoAcl
    BY <1>1 DEF IInv, TypeOK
  <2>2. acl \in Acls /\ BitsDefined(acl)
    BY <1>1, <2>1 DEF IInv, TypeOK, BufferInv, Fields
  <2>3. was # NoEntry /\ RolesFromNative(acl, was.privs) = roles
    BY <1>1 DEF Agrees
  <2>4. object[e].name \in Names
    BY <2>1 DEF Fields
  <2> HIDE DEF acl, roles
  <2>5. was \in NativeEntries /\ was.privs \in SUBSET Slots /\ was.privs \subseteq Defined(acl)
    BY <2>2, <2>3, <2>4 DEF Acls, BitsDefined, NativeEntries
  <2> HIDE DEF was
  <2>6. was.privs \cap Defined(acl) = was.privs
    BY <2>5
  <2>7. roles.names = {acl.role[k] : k \in was.privs} /\ roles.size = Cardinality(was.privs)
    BY <2>3, <2>6 DEF RolesFromNative
  <2>8. found = {k \in Defined(acl) : \E j \in was.privs : acl.role[j] = acl.role[k]}
    BY <2>7 DEF RolesToNative
  <2>9. was.privs \subseteq found /\ IsFiniteSet(found)
    BY <2>2, <2>5, <2>8, ToNativeType
  <2>10. Cardinality(found) = Cardinality(was.privs) <=> found = was.privs
    BY <2>9, FS_Subset
  <2>11. AllRolesExist(acl, roles) <=> found = was.privs
    BY <2>7, <2>10 DEF AllRolesExist
  <2>12. found = was.privs <=> \A j \in was.privs, k \in Defined(acl) :
                                  acl.role[j] = acl.role[k] => k \in was.privs
    BY <2>8, <2>9
  <2> QED
    BY <2>11, <2>12 DEF acl, was, roles
<1>2. IInv => UnchangedRolesPass
  BY <1>1 DEF UnchangedRolesPass
<1> QED
  BY <1>2, Inductive, PTL

\* When no two slots have one name, an entry cannot be added or written with a role that
\* the ACL does not define (roles_to_native(), acl/manager.cpp).
THEOREM UnknownRolesNeverWritten == Spec => UnknownRolesRefusedIfDistinct
<1> DEFINE Written(e) == object'[e].mgr # NoManager /\ object'[e] # object[e]
                           /\ buffer' # buffer /\ DistinctRoles(buffer[object'[e].mgr])
           Known(e) == object'[e].roles.names
               \subseteq {buffer[object'[e].mgr].role[k] : k \in Defined(buffer[object'[e].mgr])}
<1>1. ASSUME IInv, [Next]_vars, NEW e \in Objects, Written(e)
      PROVE  Known(e)
  <2>1. Next /\ object'[e] # object[e] /\ object'[e] # NoObject /\ buffer' # buffer
    BY <1>1 DEF vars, NoObject
  <2>2. CASE \E m \in Managers, n \in Names, l \in Levels, R \in SUBSET RoleNames :
               AddEntry(m, n, l, RoleList(R), e)
    <3>1. PICK m \in Managers, n \in Names, l \in Levels, R \in SUBSET RoleNames :
             AddEntry(m, n, l, RoleList(R), e)
      BY <2>2
    <3>2. object'[e].mgr = m
      BY <1>1, <3>1 DEF IInv, TypeOK, AddEntry
    <3> QED
      BY <1>1, <3>1, <3>2, AddingNamesRoles
  <2>3. CASE \E o : Writable(o) /\ o.mgr = object[e].mgr /\ Setter(e, o)
    <3>1. PICK o : Writable(o) /\ o.mgr = object[e].mgr /\ Setter(e, o)
      BY <2>3
    <3>2. object'[e] = o
      BY <1>1, <3>1 DEF IInv, TypeOK, Setter
    <3> QED
      BY <1>1, <3>1, <3>2, SetterAgrees
  <2> QED
    BY <1>1, <2>1, <2>2, <2>3, ObjectChanges
<1>2. IInv /\ [Next]_vars => [\A e \in Objects : Written(e) => Known(e)]_vars
  BY <1>1
<1> QED
  BY <1>2, Inductive, PTL DEF Spec, UnknownRolesRefusedIfDistinct
=============================================================================
