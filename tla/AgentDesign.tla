---------------------------- MODULE AgentDesign -----------------------------
(***************************************************************************)
(* dmn::design::agent (src/design/agent.cpp), dmn::detail::attached_object *)
(* (src/detail/attached_object.cpp) and a run of an agent (src/agent.cpp). *)
(* An agent is a design note: its code is in the action item, the language *)
(* in the type item, compiled LotusScript in a third one, and its run info *)
(* item refers to an object of the database, which is not part of the note.*)
(***************************************************************************)
EXTENDS Memory

CONSTANTS
    Scripts, Formulas,  \* code in the two languages
    Rrvs,               \* identifiers of objects in the database
    Nothing             \* an item that is not set

ASSUME AgentAssumption ==
    Nothing \notin Scripts \cup Formulas /\ Scripts \cap Formulas = {}

VARIABLES
    design,     \* the items of the note in memory, NoDesign without an agent object
    stored,     \* the items of the note in the database, NoDesign before a save
    allocated   \* the objects that exist in the database

agentVars == <<design, stored, allocated>>

Languages == {"lotusscript", "formula"}
Language(code) == IF code \in Scripts THEN "lotusscript" ELSE "formula"
Codes == Scripts \cup Formulas

Design ==
    [action : Codes \cup {Nothing}, type : Languages \cup {Nothing},
     compiled : Scripts \cup {Nothing}, runInfo : Rrvs]

NoDesign == [action |-> Nothing]

AgentInit == design = NoDesign /\ stored = NoDesign /\ allocated = {}

-----------------------------------------------------------------------------
\* The value of set_action_ex() is freed again when its item is set.
WithValue(m, b) ==
    LET value == Release(Allocate(m, b, "take"), b)
    IN  OSMemFree(Visit(value, b), b)

\* A locker that was filled is given to the C API and released.
GivenBlock(m, b) == Release(TakenOver(Allocate(m, b, "take"), b), b)

\* A locker that was filled, in a call that the C API refuses.
RefusedBlock(m, b) == Drop(Allocate(m, b, "take"), b, "take")

\* The memory after set_run_info(): the object is allocated, the note gets an
\* item that refers to it, the object is written.  It stops after n of these.
RunInfoMemory(m, b, c, n) ==
    CASE n = 0 -> m
      [] n = 1 -> RefusedBlock(m, b)
      [] n = 2 -> RefusedBlock(GivenBlock(m, b), c)
      [] n = 3 -> GivenBlock(GivenBlock(m, b), c)

\* Defect: the object is freed at the end of set_run_info().
CreateAgentUnreleased ==
    /\ design = NoDesign /\ stored = NoDesign
    /\ \E b, c \in Unused, r \in Rrvs \ allocated :
          /\ b # c
          /\ mem' = RunInfoMemory(WithValue(mem, b), b, c, 3)
          /\ design' = [action |-> Nothing, type |-> Nothing, compiled |-> Nothing,
                        runInfo |-> r]
    /\ UNCHANGED <<kind, slot, forgotten, stored, allocated>>

\* agent::create(): refused when the title is in use.  When a step fails, the
\* object is freed by its destructor, and the note goes with the exception.
CreateAgent ==
    /\ design = NoDesign /\ stored = NoDesign
    /\ \E b, c \in Unused, r \in Rrvs \ allocated, n \in 0 .. 3 :
          /\ b # c
          /\ mem' = RunInfoMemory(WithValue(mem, b), b, c, n)
          /\ IF n < 3 THEN UNCHANGED <<design, allocated>>
             ELSE /\ design' = [action |-> Nothing, type |-> Nothing,
                                compiled |-> Nothing, runInfo |-> r]
                  /\ allocated' = allocated \cup {r}
    /\ UNCHANGED <<kind, slot, forgotten, stored>>

\* The memory of set_code(): the action item is built in a locker, next to the
\* code that is read through a cursor, becomes a value, and is set.  The value,
\* the cursor and the code object are destroyed in this order.
CodeMemory(m, b, code) ==
    LET reading == Hold(Allocate(m, b, "take"), code, "borrow")
        value   == Visit(Release(reading, b), b)
    IN  OSMemFree(Drop(OSMemFree(value, b), code, "borrow"), code)

\* set_code(code): the object in o is moved into the call.  The items are the
\* action, the type and the flags, in this order; it stops after n of them.
SetCode(o, code) ==
    /\ design # NoDesign
    /\ kind[o] = (IF code \in Scripts THEN "script" ELSE "formula") /\ slot[o] # NoBlock
    /\ \E b \in Unused : mem' = CodeMemory(mem, b, slot[o])
    /\ slot' = [slot EXCEPT ![o] = NoBlock]
    /\ \E n \in 0 .. 3 :
          design' = [design EXCEPT !.action = IF n >= 1 THEN code ELSE @,
                                   !.type = IF n >= 2 THEN Language(code) ELSE @]
    /\ UNCHANGED <<kind, forgotten, stored, allocated>>

\* The items after NSFNoteLSCompile, which compiles the action of the note.
Compiled(d) == [d EXCEPT !.compiled = d.action]

\* Defect: LotusScript is compiled only when the note has not been compiled yet.
SaveAgentOnce ==
    /\ design # NoDesign
    /\ \/ design.type # "lotusscript" /\ design' = design
       \/ /\ design.type = "lotusscript" /\ design.action \in Scripts
          /\ design' = IF design.compiled = Nothing THEN Compiled(design) ELSE design
    /\ stored' \in {stored, design'}
    /\ UNCHANGED <<memoryVars, allocated>>

\* Defect: the note is compiled whatever its language.
SaveAgentAlways ==
    /\ design # NoDesign
    /\ design' = Compiled(design)
    /\ stored' \in {stored, design'}
    /\ UNCHANGED <<memoryVars, allocated>>

\* save(): the language is read from the type item.  An action that is no script
\* does not compile.  The note may be left compiled but not stored.
SaveAgent ==
    /\ design # NoDesign
    /\ \/ design.type # "lotusscript" /\ design' = design
       \/ /\ design.type = "lotusscript" /\ design.action \in Scripts
          /\ design' = Compiled(design)
    /\ stored' \in {stored, design'}
    /\ UNCHANGED <<memoryVars, allocated>>

\* The agent object is destroyed: what was not saved is gone.
DropAgent ==
    /\ design # NoDesign /\ design' = NoDesign
    /\ UNCHANGED <<memoryVars, stored, allocated>>

\* agent::run(): the output is in a block of the run context, which is destroyed
\* at the end of the call, after the locker that borrowed the block.
RunAgent ==
    /\ stored # NoDesign
    /\ \E b \in Unused :
          LET output == TakenOver(OSMemAlloc(mem, b), b)
              read   == Visit(output, b)
          IN  mem' = [read EXCEPT !.keeper[b] = "nobody", !.locks[b] = 0]
    /\ UNCHANGED <<kind, slot, forgotten, agentVars>>

AgentNext ==
    \/ CreateAgent \/ SaveAgent \/ DropAgent \/ RunAgent
    \/ \E o \in Objects, code \in Codes : SetCode(o, code)
=============================================================================
