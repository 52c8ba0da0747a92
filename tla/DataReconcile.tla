---------------------------- MODULE DataReconcile ----------------------------
(***************************************************************************)
(* dataReconcile: a daemon that takes commands from a table one by one,    *)
(* sends each to the data service centre, marks its row as sent and writes *)
(* the answer to a second table.  Mark and answer are two transactions,    *)
(* and no COMMIT is checked: one that fails has rolled its statement back. *)
(* The return code and the number of subscriptions are global variables    *)
(* that keep the values of the command before.                             *)
(***************************************************************************)
EXTENDS Naturals, Sequences

CONSTANTS Command,   \* the rows of the send table
          Known,     \* those whose code is in ccmdinfo
          NoCommand,
          MaxFaults  \* bound on kills, failed statements, lost connections,
                     \* silent servers and alarms at the wrong moment

ASSUME DataReconcileAssumption ==
    /\ Known \subseteq Command
    /\ NoCommand \notin Command
    /\ MaxFaults \in Nat

VARIABLES
    main,     \* where the daemon is
    cur,      \* command_id and the other globals getcommand fills
    status,   \* send_status of each row
    asked,    \* runflag, whether the command has gone to cmd_deal
    retcode,  \* the command whose reply set retcode
    total,    \* the command whose reply set iTotalNum
    armed,    \* the alarm of cmd_deal can still interrupt a call
    silent,   \* the service centre never replies to this connection
    counted,  \* whether the reply to cur has set iTotalNum
    answers,  \* the rows of the receive table, by command
    served,   \* times the service centre has received each command
    faults,
    lost,     \* what the answer of a marked command was lost to
    unmarked, \* times the mark of a command failed
    unended   \* times the daemon ended between sending and marking it

tables == <<status, answers>>
globals == <<cur, asked, retcode, total, counted>>
ghosts == <<lost, unmarked, unended>>
exchange == <<armed, silent>>
vars == <<main, globals, exchange, tables, served, faults, ghosts>>

\* The answer is written after the mark: "commit" is between an INSERT that
\* has worked and its COMMIT.
Writing == {"insert", "retry", "commit"}

Place == {"down", "fetch", "lookup", "connect", "wait", "mark"} \cup Writing

\* The daemon ended before the COMMIT, both INSERTs failed, or the COMMIT did.
Cause == {"ended", "refused", "uncommitted"}

\* The values are named by the command they belong to.
Answer == [retcode : Command \cup {NoCommand}, total : Command \cup {NoCommand},
           asked : BOOLEAN, counted : BOOLEAN]

TypeOK ==
    /\ main \in Place
    /\ cur \in Command \cup {NoCommand}
    /\ main \notin {"down", "fetch"} => cur # NoCommand
    /\ status \in [Command -> {"0", "1"}]
    /\ asked \in BOOLEAN /\ counted \in BOOLEAN
    /\ armed \in BOOLEAN /\ silent \in BOOLEAN
    /\ retcode \in Command \cup {NoCommand}
    /\ total \in Command \cup {NoCommand}
    /\ answers \in [Command -> Seq(Answer)]
    /\ served \in [Command -> Nat]
    /\ faults \in 0 .. MaxFaults
    /\ lost \in [Command -> Cause \cup {"none"}]
    /\ unmarked \in [Command -> Nat] /\ unended \in [Command -> Nat]

Init ==
    /\ main = "down" /\ cur = NoCommand
    /\ status = [c \in Command |-> "0"]
    /\ asked = FALSE /\ counted = FALSE /\ armed = FALSE /\ silent = FALSE
    /\ retcode = NoCommand /\ total = NoCommand
    /\ answers = [c \in Command |-> << >>]
    /\ served = [c \in Command |-> 0]
    /\ faults = 0 /\ lost = [c \in Command |-> "none"]
    /\ unmarked = [c \in Command |-> 0] /\ unended = [c \in Command |-> 0]

-----------------------------------------------------------------------------
(* start.sh, and the ways the daemon ends.                                 *)

Start ==
    /\ main = "down"
    /\ main' = "fetch"
    /\ cur' = NoCommand /\ asked' = FALSE /\ counted' = FALSE
    /\ retcode' = NoCommand /\ total' = NoCommand
    /\ armed' = FALSE /\ silent' = FALSE
    /\ UNCHANGED <<tables, served, faults, ghosts>>

\* The answer being written does not reach the receive table; that is only
\* final when the row is marked.
Lose(cause) ==
    lost' = IF status[cur] = "1" THEN [lost EXCEPT ![cur] = cause] ELSE lost

\* What is gone with the memory of the process, and with its transaction.
EndNow ==
    /\ main' = "down"
    /\ IF main \in Writing THEN Lose("ended") ELSE UNCHANGED lost
    /\ unended' = IF main \in {"wait", "mark"}
                  THEN [unended EXCEPT ![cur] = @ + 1] ELSE unended
    /\ UNCHANGED <<globals, exchange, tables, served, unmarked>>

Fault == faults < MaxFaults /\ faults' = faults + 1

\* LogOut, the handler of the SIGTERM stop.sh sends, SIGKILL, or a crash.
Killed == main # "down" /\ Fault /\ EndNow

\* The SELECT of getcommand fails.
FetchFails == main = "fetch" /\ Fault /\ EndNow

\* cmd_deal returns a negative value: main breaks out of its loop and ends,
\* the row stays as it is.
ExchangeFails == main \in {"connect", "wait"} /\ Fault /\ EndNow

\* The same for SIGALRM in readnet.
TimedOut == main = "wait" /\ armed /\ silent /\ UNCHANGED faults /\ EndNow

-----------------------------------------------------------------------------
(* One turn of the loop.                                                   *)

\* Mutants: NO_MORE_ROWS is not noticed; the WHERE clause is missing.
FetchedOrNone == {c \in Command : status[c] = "0"} \cup {NoCommand}
FetchedAny == Command

\* The rows the SELECT of getcommand may find first.
Fetched == {c \in Command : status[c] = "0"}

\* getcommand; with no row it sleeps, and nothing changes.
GetCommand ==
    /\ main = "fetch"
    /\ cur' \in Fetched
    /\ asked' = FALSE
    /\ counted' = FALSE
    /\ main' = "lookup"
    /\ UNCHANGED <<retcode, total, exchange, tables, served, faults, ghosts>>

\* ccmdinfo has the command, and freplace puts its values in.  When freplace
\* fails the text goes out with its placeholders; the reply is a code, too.
Lookup ==
    /\ main = "lookup"
    /\ cur \in Known
    /\ asked' = TRUE
    /\ armed' = TRUE
    /\ main' = "connect"
    /\ UNCHANGED <<cur, retcode, total, counted, silent, tables, served, faults,
                   ghosts>>

\* Mutant: an unknown command is left alone.
AfterUnknownSkip == "fetch"
AfterUnknown == "mark"

\* It has not, or the SELECT fails: the row is answered with what retcode and
\* iTotalNum hold.
NoSuchCommand ==
    /\ main = "lookup"
    /\ \/ cur \notin Known /\ UNCHANGED faults
       \/ Fault
    /\ main' = AfterUnknown
    /\ UNCHANGED <<globals, exchange, tables, served, ghosts>>

\* SIGALRM arrives between two calls: catchalm only sets TimeOut and ignores
\* the signal from then on.
AlarmTooEarly ==
    /\ main = "connect" /\ armed
    /\ Fault
    /\ armed' = FALSE
    /\ UNCHANGED <<main, globals, silent, tables, served, ghosts>>

Send ==
    /\ main = "connect"
    /\ served' = [served EXCEPT ![cur] = @ + 1]
    /\ \/ silent' = FALSE /\ UNCHANGED faults
       \/ silent' = TRUE /\ Fault
    /\ main' = "wait"
    /\ UNCHANGED <<globals, armed, tables, ghosts>>

\* Mutant: the code of the reply is only kept when it brings a number.
ReceiveKeepsCode ==
    /\ main = "wait" /\ ~silent
    /\ \E hasNumber \in BOOLEAN :
          /\ retcode' = IF hasNumber THEN cur ELSE retcode
          /\ total' = IF hasNumber THEN cur ELSE total
          /\ counted' = hasNumber
    /\ armed' = FALSE
    /\ main' = "mark"
    /\ UNCHANGED <<cur, asked, silent, tables, served, faults, ghosts>>

\* A reply sets retcode; iTotalNum only if it says 0, 1 or 2.
Receive ==
    /\ main = "wait" /\ ~silent
    /\ retcode' = cur
    /\ \E hasNumber \in BOOLEAN :
          /\ total' = IF hasNumber THEN cur ELSE total
          /\ counted' = hasNumber
    /\ armed' = FALSE
    /\ main' = "mark"
    /\ UNCHANGED <<cur, asked, silent, tables, served, faults, ghosts>>

\* retbackcmd: UPDATE and COMMIT; whether the UPDATE has worked is not looked
\* at.
Mark ==
    /\ main = "mark"
    /\ \/ status' = [status EXCEPT ![cur] = "1"] /\ UNCHANGED <<faults, unmarked>>
       \/ /\ Fault
          /\ unmarked' = [unmarked EXCEPT ![cur] = @ + 1]
          /\ UNCHANGED status
    /\ main' = "insert"
    /\ UNCHANGED <<globals, exchange, answers, served, lost, unended>>

NewAnswer ==
    [retcode |-> retcode, total |-> total, asked |-> asked, counted |-> counted]

\* Mutant: a failed INSERT is not tried again.
AfterFailedInsertNone == "fetch"

\* Where retbackcmd goes on when SQLCODE is not SQL_OK.
AfterFailedInsert == "retry"

\* The first INSERT; the row is there for others only after the COMMIT.
Insert ==
    /\ main = "insert"
    /\ \/ main' = "commit" /\ UNCHANGED faults
       \/ main' = AfterFailedInsert /\ Fault
    /\ UNCHANGED <<globals, exchange, tables, served, ghosts>>

\* The second one, a minute later, and the last; it has command_code where the
\* first has new_phone.
Retry ==
    /\ main = "retry"
    /\ \/ main' = "commit" /\ UNCHANGED <<faults, lost>>
       \/ main' = "fetch" /\ Fault /\ Lose("refused")
    /\ UNCHANGED <<globals, exchange, tables, served, unmarked, unended>>

\* The COMMIT after either; whether it has worked is not looked at.
Commit ==
    /\ main = "commit"
    /\ \/ /\ answers' = [answers EXCEPT ![cur] = Append(@, NewAnswer)]
          /\ UNCHANGED <<faults, lost>>
       \/ Fault /\ Lose("uncommitted") /\ UNCHANGED answers
    /\ main' = "fetch"
    /\ UNCHANGED <<globals, exchange, status, served, unmarked, unended>>

-----------------------------------------------------------------------------
Loop ==
    \/ GetCommand \/ Lookup \/ NoSuchCommand \/ Send
    \/ Mark \/ Insert \/ Retry \/ Commit

Next ==
    \/ Loop \/ Start \/ Receive \/ TimedOut
    \/ Killed \/ FetchFails \/ ExchangeFails \/ AlarmTooEarly

Spec == Init /\ [][Next]_vars

\* The daemon runs, a centre that is not silent replies, and an alarm is
\* delivered.  Nothing is assumed of start.sh.
Fairness == WF_vars(Loop) /\ WF_vars(Receive) /\ WF_vars(TimedOut)

LiveSpec == Spec /\ Fairness

-----------------------------------------------------------------------------
(* Properties.                                                             *)

\* A command that has gone to the centre is answered with its own return
\* code, and with its own number if the reply had one, though both are global
\* variables and other commands, restarts and repeats come in between.
AnswerIsOwn ==
    \A c \in Command : \A i \in DOMAIN answers[c] :
        answers[c][i].asked =>
            /\ answers[c][i].retcode = c
            /\ (answers[c][i].counted => answers[c][i].total = c)

\* A row marked as sent has its answer, or is being answered, unless one of
\* three things has happened after the mark: the daemon ended before the
\* answer's COMMIT, both INSERTs failed, or that COMMIT, which is not checked,
\* failed.  The causes are told apart, and nothing else loses an answer.
MarkedIsAnswered ==
    \A c \in Command :
        status[c] = "1" /\ answers[c] = << >> =>
            lost[c] \in Cause \/ (cur = c /\ main \in Writing)

\* A command is answered twice only if its mark has failed, and the centre
\* gets it twice only for that or because the daemon ended before the mark.
RepeatsAccounted ==
    \A c \in Command :
        /\ Len(answers[c]) <= 1 + unmarked[c]
        /\ served[c] <= 1 + unmarked[c] + unended[c]

\* Every command is marked as long as the daemon runs, a silent centre
\* included, unless the alarm was spent before the daemon waited.
CommandsMarked ==
    \A c \in Command :
        status[c] = "0" ~> \/ status[c] = "1"
                          \/ main = "down"
                          \/ (silent /\ ~armed /\ main = "wait")

-----------------------------------------------------------------------------
(* The inductive invariant of DataReconcileProofs.                         *)

Marked(c) == IF status[c] = "1" THEN 1 ELSE 0
Answering(c) == IF cur = c /\ main \in Writing THEN 1 ELSE 0
InFlight(c) == IF cur = c /\ main \in {"wait", "mark"} THEN 1 ELSE 0

\* Between the reply and the answer the globals are those of this command,
\* and before the lookup it has not been asked for.
GlobalsAreOwn ==
    /\ asked /\ main \in {"mark"} \cup Writing =>
           retcode = cur /\ (counted => total = cur)
    /\ main = "lookup" => ~asked

\* A row is not marked before its turn comes to it.
NotMarkedYet == main \in {"lookup", "connect", "wait", "mark"} => status[cur] = "0"

\* Every answer, and the one being written, has a mark or a failed mark.
AnswersAccounted ==
    \A c \in Command : Len(answers[c]) + Answering(c) <= unmarked[c] + Marked(c)

\* So has every request, but the one under way and those the end cut off.
ServedAccounted ==
    \A c \in Command :
        served[c] <= unmarked[c] + unended[c] + Marked(c) + InFlight(c)

IInv ==
    /\ TypeOK
    /\ GlobalsAreOwn
    /\ NotMarkedYet
    /\ AnswerIsOwn
    /\ MarkedIsAnswered
    /\ AnswersAccounted
    /\ ServedAccounted
=============================================================================
