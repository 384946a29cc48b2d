------------------------------- MODULE Locations -------------------------------
(***************************************************************************)
(* The shop's locations: what the staff enter (ConfigService) and what     *)
(* Sapo says of its own (SapoLocationSyncService), which overwrites them   *)
(* one by one from lists read before and takes a code only where nobody    *)
(* else holds it.  What Sapo has is external.                              *)
(***************************************************************************)
EXTENDS Naturals, FiniteSets

CONSTANTS
    MaxRows,        \* bound: locations ever made
    SapoIds, Codes,
    Forms,          \* what the staff enter
    Views           \* what Sapo says of a location

\* The values of the constants, assumed by the module that instantiates this one.  A text is
\* a location's name, address and status.
LocationsAssumption ==
    /\ MaxRows \in Nat /\ "none" \notin SapoIds
    /\ \A view \in Forms \union Views :
          view.code \in Codes \union {"none"} /\ view.default \in BOOLEAN /\ view.text # "none"
    /\ \A view \in Views : view.phone \in {"none", "sapo"}

VARIABLES
    row,        \* locations
    remote,     \* external: Sapo's locations
    staff,      \* the request of the staff
    run,        \* the synchronisation
    reported    \* history: what the last run read and reported, if nothing has changed since

vars == <<row, remote, staff, run, reported>>

None == "none"
NoRow == [sapo |-> None, code |-> None, text |-> None, phone |-> None, default |-> FALSE]
Idle == [pc |-> "idle"]
Nothing == [st |-> "nothing"]

NoLocation == [code |-> None, text |-> None, phone |-> None, default |-> FALSE]

\* Ids are given in order, and no location is ever removed.
Places == 1..MaxRows
There(i) == row[i] # NoRow
NextId == Cardinality({i \in Places : There(i)}) + 1
New == 0
HoldersOf(code) == {i \in Places : code # None /\ row[i].code = code}
RowsOf(s) == {i \in Places : row[i].sapo = s}

Init ==
    /\ row = [i \in Places |-> NoRow]
    /\ remote = [s \in SapoIds |-> NoLocation]
    /\ staff = Idle /\ run = Idle
    /\ reported = Nothing

\* What was read is no longer all there is.
Disturb ==
    /\ reported' = Nothing
    /\ run' = IF run = Idle THEN Idle ELSE [run EXCEPT !.alone = FALSE]

-----------------------------------------------------------------------------
(* The staff.                                                              *)

\* createLocation, updateLocation (and deactivateLocation): assertCodeFree ...
Check(i, form) ==
    /\ staff = Idle
    /\ HoldersOf(form.code) \subseteq {i}
    /\ staff' = [pc |-> "write", id |-> i, form |-> form]
    /\ UNCHANGED <<row, remote, run, reported>>

\* ... then the transaction, clearDefault included; a code taken since is refused.
Enter ==
    LET i == IF staff.id = New THEN NextId ELSE staff.id
        form == staff.form
    IN  /\ staff.pc = "write" /\ i \in Places
        /\ HoldersOf(form.code) \subseteq {i}
        /\ row' = [j \in Places |->
                    IF j = i THEN [row[i] EXCEPT !.code = form.code, !.text = form.text,
                                                 !.phone = "staff", !.default = form.default]
                    ELSE IF form.default /\ There(j) THEN [row[j] EXCEPT !.default = FALSE]
                    ELSE row[j]]
        /\ staff' = Idle
        /\ Disturb
        /\ UNCHANGED remote

Refuse ==
    /\ staff # Idle
    /\ staff' = Idle
    /\ UNCHANGED <<row, remote, run, reported>>

-----------------------------------------------------------------------------
(* syncLocations.                                                          *)

ChangeAtSapo(s, data) ==
    /\ data # remote[s]
    /\ remote' = [remote EXCEPT ![s] = data]
    /\ Disturb
    /\ UNCHANGED <<row, staff>>

\* The pages of Sapo's locations ...
Fetch ==
    /\ run = Idle
    /\ run' = [pc |-> "read", list |-> remote, alone |-> TRUE]
    /\ UNCHANGED <<row, remote, staff, reported>>

\* ... and the rows here: bySapoId and codeOwner.
ReadRows ==
    /\ run.pc = "read"
    /\ run' = [pc |-> "loop", list |-> run.list, alone |-> run.alone,
               left |-> {s \in SapoIds : run.list[s] # NoLocation},
               current |-> [s \in SapoIds |-> RowsOf(s)],
               owner |-> [c \in Codes |-> HoldersOf(c)],
               conflicts |-> {}, update |-> Nothing]
    /\ UNCHANGED <<row, remote, staff, reported>>

\* toData: the code, unless it is known to be another row's
CodeUsable(s) ==
    LET code == run.list[s].code
    IN code = None \/ run.owner[code] \subseteq run.current[s]

\* The row as it should be after the writing; a telephone number of the staff's is kept.
Written(old, s) ==
    LET data == run.list[s]
    IN [sapo |-> s, code |-> IF CodeUsable(s) THEN data.code ELSE old.code,
        text |-> data.text,
        phone |-> IF data.phone = None THEN old.phone ELSE data.phone,
        default |-> data.default]

\* Mutant: the code is no part of the comparison.
ChangedInText(old, new) == [old EXCEPT !.code = None] # [new EXCEPT !.code = None]

\* before and data differ in a column.
Changed(old, new) == old # new

Counted(s, id) ==
    LET code == run.list[s].code
    IN [run EXCEPT !.left = @ \ {s},
                   !.conflicts = IF CodeUsable(s) THEN @ ELSE @ \union {code},
                   !.owner = IF id # {} /\ CodeUsable(s) /\ code # None
                             THEN [@ EXCEPT ![code] = id] ELSE @]

\* A location new to us; a code taken since the rows were read fails the run.
Create(s) ==
    /\ run.pc = "loop" /\ s \in run.left /\ run.current[s] = {}
    /\ NextId \in Places
    /\ row' = [row EXCEPT ![NextId] = Written(NoRow, s)]
    /\ HoldersOf(row'[NextId].code) = {}
    /\ run' = Counted(s, {NextId})
    /\ UNCHANGED <<remote, staff, reported>>

\* A location we know: it is read again, compared ...
Compare(s) ==
    /\ run.pc = "loop" /\ s \in run.left
    /\ \E i \in run.current[s] :
         LET new == Written(row[i], s)
         IN run' = IF Changed(row[i], new)
                   THEN [run EXCEPT !.pc = "update",
                                    !.update = [id |-> i, of |-> s, new |-> new]]
                   ELSE Counted(s, {})
    /\ UNCHANGED <<row, remote, staff, reported>>

\* ... and written, a code that was not usable left alone.
Update ==
    LET s == run.update.of
        i == run.update.id
        new == run.update.new
        code == IF CodeUsable(s) THEN new.code ELSE row[i].code
    IN  /\ run.pc = "update"
        /\ HoldersOf(code) \subseteq {i}
        /\ row' = [row EXCEPT ![i] = [new EXCEPT !.code = code]]
        /\ run' = [Counted(s, {i}) EXCEPT !.pc = "loop", !.update = Nothing]
        /\ UNCHANGED <<remote, staff, reported>>

\* What Sapo does not name is left as it is.
EndRun ==
    /\ run.pc = "loop" /\ run.left = {}
    /\ reported' = IF run.alone THEN [st |-> "run", list |-> run.list,
                                      conflicts |-> run.conflicts]
                   ELSE Nothing
    /\ run' = Idle
    /\ UNCHANGED <<row, remote, staff>>

\* A page cannot be read, or a constraint refuses a row: what is written remains.
FailRun ==
    /\ run # Idle
    /\ run' = Idle /\ reported' = Nothing
    /\ UNCHANGED <<row, remote, staff>>

Next ==
    \/ \E i \in {i \in Places : There(i)} \union {New}, form \in Forms : Check(i, form)
    \/ Enter \/ Refuse
    \/ \E s \in SapoIds, data \in Views \union {NoLocation} : ChangeAtSapo(s, data)
    \/ Fetch \/ ReadRows \/ Update \/ EndRun \/ FailRun
    \/ \E s \in SapoIds : Compare(s) \/ Create(s)

Spec == Init /\ [][Next]_vars

-----------------------------------------------------------------------------
\* The types of locations; no code and no location of Sapo's has two rows.
TypeOK ==
    /\ \A c \in Codes : Cardinality(HoldersOf(c)) <= 1
    /\ \A s \in SapoIds : Cardinality(RowsOf(s)) <= 1
    /\ \A i \in Places : row[i].phone \in {None, "sapo", "staff"}

\* A run that nothing disturbed leaves every location as Sapo had it, but for the codes
\* it reported; so the report is all that is left to do by hand.
LocationsAsReported ==
    reported # Nothing => \A s \in SapoIds : reported.list[s] # NoLocation =>
        \E i \in RowsOf(s) :
            /\ row[i].text = reported.list[s].text
            /\ row[i].default = reported.list[s].default
            /\ reported.list[s].phone \in {None, row[i].phone}
            /\ row[i].code = reported.list[s].code
                \/ reported.list[s].code \in reported.conflicts
=============================================================================
