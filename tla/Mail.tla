-------------------------------- MODULE Mail --------------------------------
(***************************************************************************)
(* dmn::mail (src/messaging/mail.cpp): one message under construction, its *)
(* four recipient lists, and the message of the C API that takes the lists *)
(* over while it is sent.  Every call of the C API may fail; what was done *)
(* before stays done.                                                      *)
(***************************************************************************)
EXTENDS Memory, Functions

CONSTANT Emails

HeaderLists == {"send_to", "copy_to", "blind_copy_to"}
MailLists == HeaderLists \cup {"recipients"}

ASSUME MailAssumption == MailLists \subseteq Objects

VARIABLES
    composing,   \* a mail object lives, with its message file and its message
    entries,     \* entries[l]: the addresses in the list l
    message,     \* what the message of the C API was given, see Message
    transfers    \* how often the message was transferred

mailVars == <<composing, entries, message, transfers>>

Headers == {"Form", "From", "Subject", "ComposedDate", "PostedDate", "Body"}

Message ==
    [recipients : SUBSET Emails,             \* its Recipients item, {} if none
     lists : [HeaderLists -> SUBSET Emails], \* its SendTo, CopyTo and BlindCopyTo
     headers : SUBSET Headers]

NoMessage == [recipients |-> {}, lists |-> [l \in HeaderLists |-> {}], headers |-> {}]

MailInit ==
    /\ composing = FALSE
    /\ entries = [l \in MailLists |-> {}]
    /\ message = NoMessage
    /\ transfers = 0

Blank == entries' = [l \in MailLists |-> {}] /\ message' = NoMessage /\ transfers' = 0

\* mail::create(): the members are four empty lists.  When the message file or
\* the message cannot be opened they are destroyed again.
Create ==
    /\ ~composing /\ composing' = TRUE /\ Blank
    /\ \A l \in MailLists : kind[l] = "none"
    /\ \E blocks \in [MailLists -> Unused] :
          /\ IsInjective(blocks)
          /\ mem' = [mem EXCEPT !.keeper = [b \in Blocks |->
                        IF \E l \in MailLists : blocks[l] = b THEN "library" ELSE @[b]]]
          /\ kind' = [o \in Objects |-> IF o \in MailLists THEN "list" ELSE kind[o]]
          /\ slot' = [o \in Objects |-> IF o \in MailLists THEN blocks[o] ELSE slot[o]]
    /\ UNCHANGED forgotten

\* ~mail(): the lists that were not given away are freed, then the message and
\* the message file are closed.
Discard ==
    /\ composing /\ composing' = FALSE /\ Blank
    /\ mem' = Destroyed(mem, MailLists)
    /\ kind' = [o \in Objects |-> IF o \in MailLists THEN "none" ELSE kind[o]]
    /\ slot' = [o \in Objects |-> IF o \in MailLists THEN NoBlock ELSE slot[o]]
    /\ UNCHANGED forgotten

-----------------------------------------------------------------------------
\* add_to_list() pushes the address e to the lists ls, first to the list of the
\* header; push_back() throws for a list that was given away and when the entry
\* cannot be added.
Push(l, e, ls) ==
    /\ composing /\ \A k \in ls : slot[k] # NoBlock
    /\ entries' = [k \in MailLists |-> IF k \in ls THEN entries[k] \cup {e} ELSE entries[k]]
    /\ mem' = IF ls = {l, "recipients"} THEN Edited(Edited(mem, l), "recipients")
              ELSE Edited(mem, CHOOSE k \in ls : TRUE)
    /\ UNCHANGED <<kind, slot, forgotten, composing, message, transfers>>

\* Defect: the recipient is added before the list of the header.
AddToListReversed(l, e) == Push(l, e, {"recipients"}) \/ Push(l, e, {l, "recipients"})

\* add_send_to(), add_copy_to(), add_blind_copy_to(): the second push_back() may
\* throw after the first one.
AddToList(l, e) == Push(l, e, {l}) \/ Push(l, e, {l, "recipients"})

\* mime::write_to(): when a line cannot be written there is no item; the stream is
\* closed either way.
Itemized(headers) == {headers, headers \cup {"Body"}}

\* mail::set_body().
SetBody ==
    /\ composing
    /\ \E hs \in Itemized(message.headers) : message' = [message EXCEPT !.headers = hs]
    /\ UNCHANGED <<memoryVars, composing, entries, transfers>>

-----------------------------------------------------------------------------
\* The calls of the C API that send() makes, and their order.
CallNo == [recipients |-> 1, send_to |-> 2, copy_to |-> 3, blind_copy_to |-> 4,
           Form |-> 5, From |-> 6, Subject |-> 7, ComposedDate |-> 8, PostedDate |-> 9,
           transfer |-> 10]

\* The calls made when send() stops after number n: an empty list is left out.
Made(n) == {c \in DOMAIN CallNo : CallNo[c] <= n /\ (c \in HeaderLists => entries[c] # {})}

\* The message after the calls in done: lists are copied with their addresses.
Filled(done) ==
    [recipients |-> IF "recipients" \in done THEN entries["recipients"]
                    ELSE message.recipients,
     lists |-> [l \in HeaderLists |-> IF l \in done THEN entries[l] ELSE message.lists[l]],
     headers |-> message.headers \cup (done \cap Headers)]

\* The memory after the lists in given were taken over and released.
GivenAway(m, given) ==
    LET bs == {slot[l] : l \in given}
    IN  [m EXCEPT !.keeper = [b \in Blocks |-> IF b \in bs THEN "domino" ELSE @[b]],
                  !.faults = IF \E b \in bs : m.keeper[b] # "library"
                             THEN @ \cup {"given away by another"} ELSE @]

\* Defect: the lists are not released.
SendUnreleased ==
    /\ composing /\ slot["recipients"] # NoBlock /\ entries["recipients"] # {}
    /\ \E n \in 0 .. 10 :
          LET done == Made(n)
          IN  /\ mem' = GivenAway(mem, done \cap MailLists)
              /\ message' = Filled(done)
              /\ transfers' = transfers + (IF "transfer" \in done THEN 1 ELSE 0)
    /\ UNCHANGED <<kind, slot, forgotten, composing, entries>>

\* Defect: the lists are released only when the whole call succeeds.
SendReleasesLate ==
    /\ composing /\ slot["recipients"] # NoBlock /\ entries["recipients"] # {}
    /\ \E n \in 0 .. 10 :
          LET done  == Made(n)
              given == done \cap MailLists
          IN  /\ mem' = GivenAway(mem, given)
              /\ slot' = [o \in Objects |-> IF n = 10 /\ o \in given THEN NoBlock ELSE slot[o]]
              /\ message' = Filled(done)
              /\ transfers' = transfers + (IF "transfer" \in done THEN 1 ELSE 0)
    /\ UNCHANGED <<kind, forgotten, composing, entries>>

\* send(): it stops after call n, or not at all.  A list whose call has succeeded is
\* released, so that sending again throws at the released recipients.
Send ==
    /\ composing /\ slot["recipients"] # NoBlock /\ entries["recipients"] # {}
    /\ \E n \in 0 .. 10 :
          LET done  == Made(n)
              given == done \cap MailLists
          IN  /\ mem' = GivenAway(mem, given)
              /\ slot' = [o \in Objects |-> IF o \in given THEN NoBlock ELSE slot[o]]
              /\ message' = Filled(done)
              /\ transfers' = transfers + (IF "transfer" \in done THEN 1 ELSE 0)
    /\ UNCHANGED <<kind, forgotten, composing, entries>>

MailNext ==
    \/ Create \/ Discard \/ SetBody \/ Send
    \/ \E l \in HeaderLists, e \in Emails : AddToList(l, e)
=============================================================================
