------------------------------ MODULE Programs ------------------------------
(***************************************************************************)
(* Programs that use the memory of the C API through dmn-cpp: one that     *)
(* works with its objects, one that writes messages, and one that builds   *)
(* an agent.  The lists of a message and the code of an agent are objects  *)
(* of Memory, so that whatever holds of the memory holds for all of them.  *)
(* Which program runs is chosen at the start: a bound on the state space.  *)
(***************************************************************************)
EXTENDS Mail, AgentDesign

VARIABLE program

vars == <<memoryVars, mailVars, agentVars, program>>

ProgramsInit ==
    /\ Init /\ MailInit /\ AgentInit
    /\ program \in {"objects", "mail", "agent"}

\* The storage that a program uses for objects, apart from the lists of a message.
Variables == Objects \ MailLists
CodeKinds == {"none", "formula", "script"}

UseObjects ==
    /\ program = "objects"
    /\ \/ \E o \in Variables : ObjectStep(o)
       \/ \E o, p \in Variables : CloneNames(o, p) \/ Move(o, p)
       \/ \E own \in Ownership : RefuseValue(own)
       \/ RejectScript \/ RunQuery
    /\ UNCHANGED <<mailVars, agentVars, program>>

WriteMail ==
    /\ program = "mail"
    /\ MailNext
    /\ UNCHANGED <<agentVars, program>>

BuildAgent ==
    /\ program = "agent"
    /\ \/ AgentNext
       \/ /\ \E o \in Variables : CompileFormula(o) \/ FormulaOf(o) \/ NewScript(o) \/ Destroy(o)
          /\ UNCHANGED agentVars
    /\ UNCHANGED <<mailVars, program>>

Domino == DominoFrees /\ UNCHANGED <<mailVars, agentVars, program>>

Next == UseObjects \/ WriteMail \/ BuildAgent \/ Domino

Spec == ProgramsInit /\ [][Next]_vars

-----------------------------------------------------------------------------
TypeOK ==
    /\ mem \in MemoryState
    /\ kind \in [Objects -> Kinds]
    /\ slot \in [Objects -> Blocks \cup {NoBlock}]
    /\ forgotten \subseteq Blocks
    /\ composing \in BOOLEAN
    /\ entries \in [MailLists -> SUBSET Emails]
    /\ message \in Message
    /\ transfers \in Nat
    /\ design \in Design \cup {NoDesign}
    /\ stored \in Design \cup {NoDesign}
    /\ allocated \subseteq Rrvs

\* No sequence of calls, successful or not, frees a block twice or one that the
\* C API has taken over, locks a freed one, unlocks one too often, or moves one
\* that a locker points into (the clean-up functions, release() and the scopes).
NoMisuse == mem.faults = {}

\* A block has one keeper: one object, whose destructor frees it, or the C API.
\* Only the texts of a query and what a rejected script leaves in dest_hdl are
\* forgotten.
OneKeeper ==
    /\ \A o, p \in Objects : o # p /\ slot[o] # NoBlock => slot[o] # slot[p]
    /\ \A b \in Blocks :
          mem.keeper[b] = "library" <=> (b \in forgotten \/ \E o \in Objects : slot[o] = b)

\* A call leaves no locker behind, and a block that an object keeps is locked
\* after the call as often as before, by whatever path the call returned.
LocksReturned ==
    [][/\ \A b \in Blocks : mem'.cursors[b] = 0
       /\ \A o \in Objects : slot[o] # NoBlock /\ slot'[o] = slot[o] =>
             mem'.locks[slot[o]] = mem.locks[slot[o]]]_vars

\* Whatever step of send() fails, and however often the caller tries again, a
\* message is delivered to all of its recipients or to nobody, once.
Delivers == INSTANCE Delivery WITH
    addressed <- IF message.recipients # {} THEN message.recipients
                 ELSE entries["recipients"],
    delivered <- IF transfers > 0 THEN message.recipients ELSE {}
ImplementsDelivery == Delivers!Spec

\* The message that is transferred names each of its recipients in one of the
\* lists of its header, also after a failed add, and it is transferred once.
RecipientsNamed ==
    transfers > 0 =>
        /\ transfers = 1
        /\ message.recipients \subseteq UNION {message.lists[l] : l \in HeaderLists}

\* No note, stored or about to be, refers to an object that was freed: the object
\* belongs to the note only when all steps of set_run_info() succeeded.
RunInfoKept == \A d \in {design, stored} : d # NoDesign => d.runInfo \in allocated

\* A stored agent of type LotusScript carries the compiled form of its own code,
\* also when some set_code() before had failed half way.
ScriptsCompiled ==
    stored # NoDesign /\ stored.type = "lotusscript" => stored.compiled = stored.action
=============================================================================
