------------------------- MODULE DataReconcileProofs -------------------------
(***************************************************************************)
(* Proofs about DataReconcile, for every set of commands and any number of *)
(* faults.  IInv is inductive; the answers a command has got are counted   *)
(* against its marks and failed marks, its requests against these and the  *)
(* ends of the daemon.                                                     *)
(***************************************************************************)
EXTENDS DataReconcile, TLAPS

\* The ways the daemon ends differ in their guards only.
Ends == Killed \/ FetchFails \/ ExchangeFails \/ TimedOut

LEMMA EndsIsEndNow ==
    ASSUME Ends PROVE EndNow /\ main # "down"
BY DEF Ends, Killed, FetchFails, ExchangeFails, TimedOut

\* The daemon only counts faults up to the bound.
LEMMA FaultsBounded ==
    ASSUME TypeOK, [Next]_vars PROVE faults' \in 0 .. MaxFaults
<1>1. faults' = faults \/ (faults < MaxFaults /\ faults' = faults + 1)
  BY DEF Next, Loop, GetCommand, Lookup, NoSuchCommand, Send, Mark, Insert,
         Retry, Commit, Start, Receive, TimedOut, Killed, FetchFails,
         ExchangeFails, AlarmTooEarly, Fault, vars
<1> QED
  BY <1>1, DataReconcileAssumption DEF TypeOK

-----------------------------------------------------------------------------
(* Types.                                                                  *)

LEMMA TypeInit == Init => TypeOK
<1> SUFFICES ASSUME Init PROVE TypeOK
  OBVIOUS
<1>1. answers \in [Command -> Seq(Answer)]
  BY DEF Init
<1>2. /\ status \in [Command -> {"0", "1"}]
      /\ served \in [Command -> Nat]
      /\ unmarked \in [Command -> Nat] /\ unended \in [Command -> Nat]
  BY DEF Init
<1>3. faults \in 0 .. MaxFaults
  BY DataReconcileAssumption DEF Init
<1> QED
  BY <1>1, <1>2, <1>3 DEF Init, TypeOK, Place, Writing

LEMMA NewAnswerType == TypeOK => NewAnswer \in Answer
BY DEF TypeOK, NewAnswer, Answer

LEMMA AppendType ==
    ASSUME TypeOK, main = "commit",
           answers' = [answers EXCEPT ![cur] = Append(@, NewAnswer)]
    PROVE  /\ cur \in Command
           /\ answers' \in [Command -> Seq(Answer)]
           /\ answers'[cur] = Append(answers[cur], NewAnswer)
           /\ \A c \in Command \ {cur} : answers'[c] = answers[c]
<1>1. cur \in Command
  BY DEF TypeOK
<1>2. answers[cur] \in Seq(Answer)
  BY <1>1 DEF TypeOK
<1>3. Append(answers[cur], NewAnswer) \in Seq(Answer)
  BY <1>2, NewAnswerType
<1> QED
  BY <1>1, <1>3 DEF TypeOK

\* Losing the answer of the current command.
LEMMA LoseType ==
    ASSUME TypeOK, cur \in Command, NEW cause \in Cause, Lose(cause)
    PROVE  /\ lost' \in [Command -> Cause \cup {"none"}]
           /\ \A c \in Command : lost[c] \in Cause => lost'[c] \in Cause
           /\ status[cur] = "1" => lost'[cur] = cause
BY DEF Lose, TypeOK

LEMMA TypeStep == TypeOK /\ [Next]_vars => TypeOK'
<1> SUFFICES ASSUME TypeOK, [Next]_vars PROVE TypeOK'
  OBVIOUS
<1>f. faults' \in 0 .. MaxFaults
  BY FaultsBounded
<1>1. CASE Start
  BY <1>1, <1>f DEF Start, TypeOK, Place, Writing, tables, ghosts
<1>2. CASE Ends
  <2>1. EndNow /\ main # "down"
    BY <1>2, EndsIsEndNow
  <2>2. unended' \in [Command -> Nat]
    BY <2>1 DEF EndNow, TypeOK
  <2>3. lost' \in [Command -> Cause \cup {"none"}]
    <3>1. CASE main \in Writing
      <4>1. cur \in Command /\ "ended" \in Cause
        BY <3>1 DEF TypeOK, Writing, Cause
      <4> QED
        BY <2>1, <3>1, <4>1, LoseType DEF EndNow
    <3>2. CASE main \notin Writing
      BY <2>1, <3>2 DEF EndNow, TypeOK
    <3> QED
      BY <3>1, <3>2
  <2> QED
    BY <2>1, <2>2, <2>3, <1>f DEF EndNow, TypeOK, Place, Writing, globals,
                                 exchange, tables
<1>3. CASE GetCommand
  <2>1. cur' \in Command /\ cur' # NoCommand
    BY <1>3, DataReconcileAssumption DEF GetCommand, Fetched
  <2> QED
    BY <1>3, <2>1, <1>f DEF GetCommand, TypeOK, Place, Writing, exchange, tables, ghosts
<1>4. CASE Lookup
  BY <1>4, <1>f DEF Lookup, TypeOK, Place, Writing, tables, ghosts
<1>5. CASE NoSuchCommand
  BY <1>5, <1>f DEF NoSuchCommand, AfterUnknown, TypeOK, Place, Writing, globals,
                    exchange, tables, ghosts
<1>6. CASE AlarmTooEarly
  BY <1>6, <1>f DEF AlarmTooEarly, TypeOK, Place, Writing, globals, tables, ghosts
<1>7. CASE Send
  <2>1. silent' \in BOOLEAN
    BY <1>7 DEF Send
  <2> QED
    BY <1>7, <2>1, <1>f DEF Send, TypeOK, Place, Writing, globals, tables, ghosts
<1>8. CASE Receive
  <2>1. PICK hasNumber \in BOOLEAN :
            /\ total' = IF hasNumber THEN cur ELSE total
            /\ counted' = hasNumber
    BY <1>8, Zenon DEF Receive
  <2>2. total' \in Command \cup {NoCommand} /\ counted' \in BOOLEAN
    BY <1>8, <2>1 DEF Receive, TypeOK
  <2> QED
    BY <1>8, <2>2, <1>f DEF Receive, TypeOK, Place, Writing, tables, ghosts
<1>9. CASE Mark
  <2>1. status' \in [Command -> {"0", "1"}]
    BY <1>9 DEF Mark, TypeOK
  <2>2. unmarked' \in [Command -> Nat]
    <3>1. CASE unmarked' = unmarked
      BY <3>1 DEF TypeOK
    <3>2. CASE unmarked' = [unmarked EXCEPT ![cur] = @ + 1]
      <4>1. cur \in Command /\ unmarked[cur] + 1 \in Nat
        BY <1>9 DEF Mark, TypeOK
      <4> QED
        BY <3>2, <4>1 DEF TypeOK
    <3> QED
      BY <1>9, <3>1, <3>2 DEF Mark
  <2> QED
    BY <1>9, <2>1, <2>2, <1>f DEF Mark, TypeOK, Place, Writing, globals, exchange
<1>10. CASE Insert
  BY <1>10, <1>f DEF Insert, AfterFailedInsert, TypeOK, Place, Writing, globals,
                     exchange, tables, ghosts
<1>11. CASE Retry
  <2>1. lost' \in [Command -> Cause \cup {"none"}]
    <3>1. cur \in Command /\ "refused" \in Cause
      BY <1>11 DEF Retry, TypeOK, Cause
    <3> QED
      BY <1>11, <3>1, LoseType DEF Retry, TypeOK
  <2> QED
    BY <1>11, <2>1, <1>f DEF Retry, TypeOK, Place, Writing, globals, exchange,
                             tables
<1>12. CASE Commit
  <2>1. answers' \in [Command -> Seq(Answer)]
    BY <1>12, AppendType DEF Commit, TypeOK
  <2>2. lost' \in [Command -> Cause \cup {"none"}]
    <3>1. cur \in Command /\ "uncommitted" \in Cause
      BY <1>12 DEF Commit, TypeOK, Cause
    <3> QED
      BY <1>12, <3>1, LoseType DEF Commit, TypeOK
  <2> QED
    BY <1>12, <2>1, <2>2, <1>f DEF Commit, TypeOK, Place, globals, exchange
<1>13. CASE UNCHANGED vars
  BY <1>13 DEF TypeOK, vars, globals, exchange, tables, ghosts
<1> QED
  BY <1>1, <1>2, <1>3, <1>4, <1>5, <1>6, <1>7, <1>8, <1>9, <1>10, <1>11, <1>12,
     <1>13 DEF Next, Loop, Ends

\* Every variable of the daemon keeps its type.
THEOREM TypeCorrect == Spec => []TypeOK
BY TypeInit, TypeStep, PTL DEF Spec

-----------------------------------------------------------------------------
(* What the steps do to the variables the invariant relates.               *)

\* Only the COMMIT writes answers, and it changes neither marks nor globals.
LEMMA WhoAnswers ==
    ASSUME TypeOK, [Next]_vars
    PROVE  \/ answers' = answers
           \/ /\ main = "commit" /\ main' = "fetch"
              /\ answers' = [answers EXCEPT ![cur] = Append(@, NewAnswer)]
              /\ status' = status /\ unmarked' = unmarked
BY DEF Next, Loop, GetCommand, Lookup, NoSuchCommand, Send, Mark, Insert,
       Retry, Commit, Start, Receive, TimedOut, Killed, FetchFails,
       ExchangeFails, AlarmTooEarly, EndNow, vars, tables, globals, ghosts

\* Only Mark marks, and it loses nothing.
LEMMA WhoMarks ==
    ASSUME TypeOK, [Next]_vars
    PROVE  \/ status' = status
           \/ /\ main = "mark" /\ main' = "insert"
              /\ cur' = cur /\ answers' = answers /\ lost' = lost
              /\ status' = [status EXCEPT ![cur] = "1"]
BY DEF Next, Loop, GetCommand, Lookup, NoSuchCommand, Send, Mark, Insert,
       Retry, Commit, Start, Receive, TimedOut, Killed, FetchFails,
       ExchangeFails, AlarmTooEarly, EndNow, vars, tables, globals, ghosts

\* A cause that is noted stays.
LEMMA LostKept ==
    ASSUME TypeOK, [Next]_vars, NEW c \in Command, lost[c] \in Cause
    PROVE  lost'[c] \in Cause
<1>1. CASE lost' = lost
  BY <1>1
<1>2. CASE main \in Writing /\ \E cause \in Cause : Lose(cause)
  BY <1>2, LoseType DEF Writing, TypeOK
<1>3. lost' = lost \/ (main \in Writing /\ \E cause \in Cause : Lose(cause))
  BY DEF Next, Loop, GetCommand, Lookup, NoSuchCommand, Send, Mark, Insert,
         Retry, Commit, Start, Receive, TimedOut, Killed, FetchFails,
         ExchangeFails, AlarmTooEarly, EndNow, Cause, Writing, vars, ghosts
<1> QED
  BY <1>1, <1>2, <1>3

-----------------------------------------------------------------------------
LEMMA GlobalsStep ==
    ASSUME TypeOK, GlobalsAreOwn, [Next]_vars PROVE GlobalsAreOwn'
<1>1. CASE Start
  BY <1>1 DEF Start, Writing, GlobalsAreOwn
<1>2. CASE Ends
  BY <1>2, EndsIsEndNow DEF EndNow, Writing, GlobalsAreOwn
<1>3. CASE GetCommand \/ Lookup
  BY <1>3 DEF GetCommand, Lookup, Writing, GlobalsAreOwn
<1>4. CASE NoSuchCommand
  <2>1. ~asked
    BY <1>4 DEF NoSuchCommand, Writing, GlobalsAreOwn
  <2> QED
    BY <1>4, <2>1 DEF NoSuchCommand, AfterUnknown, globals, Writing, GlobalsAreOwn
<1>5. CASE AlarmTooEarly \/ Send
  BY <1>5 DEF AlarmTooEarly, Send, Writing, GlobalsAreOwn
<1>6. CASE Receive
  BY <1>6 DEF Receive, Writing, GlobalsAreOwn
<1>7. CASE Mark \/ Insert \/ Retry \/ Commit
  BY <1>7 DEF Mark, Insert, Retry, Commit, AfterFailedInsert, Writing, globals,
              GlobalsAreOwn
<1>8. CASE UNCHANGED vars
  BY <1>8 DEF vars, globals, Writing, GlobalsAreOwn
<1> QED
  BY <1>1, <1>2, <1>3, <1>4, <1>5, <1>6, <1>7, <1>8 DEF Next, Loop, Ends

LEMMA NotMarkedStep ==
    ASSUME TypeOK, NotMarkedYet, [Next]_vars PROVE NotMarkedYet'
<1>1. CASE Start
  BY <1>1 DEF Start, NotMarkedYet
<1>2. CASE Ends
  BY <1>2, EndsIsEndNow DEF EndNow, NotMarkedYet
<1>3. CASE GetCommand
  BY <1>3 DEF GetCommand, Fetched, tables, NotMarkedYet
<1>4. CASE Lookup \/ NoSuchCommand \/ AlarmTooEarly \/ Send \/ Receive
  BY <1>4 DEF Lookup, NoSuchCommand, AfterUnknown, AlarmTooEarly, Send,
              Receive, globals, tables, NotMarkedYet
<1>5. CASE Mark \/ Insert \/ Retry \/ Commit
  BY <1>5 DEF Mark, Insert, Retry, Commit, AfterFailedInsert, NotMarkedYet
<1>6. CASE UNCHANGED vars
  BY <1>6 DEF vars, globals, tables, NotMarkedYet
<1> QED
  BY <1>1, <1>2, <1>3, <1>4, <1>5, <1>6 DEF Next, Loop, Ends

LEMMA AnswerIsOwnStep ==
    ASSUME TypeOK, GlobalsAreOwn, AnswerIsOwn, [Next]_vars PROVE AnswerIsOwn'
<1>1. CASE answers' = answers
  BY <1>1 DEF AnswerIsOwn
<1>2. CASE /\ main = "commit"
           /\ answers' = [answers EXCEPT ![cur] = Append(@, NewAnswer)]
  <2> SUFFICES ASSUME NEW c \in Command, NEW i \in DOMAIN answers'[c],
                      answers'[c][i].asked
               PROVE  /\ answers'[c][i].retcode = c
                      /\ answers'[c][i].counted => answers'[c][i].total = c
    BY DEF AnswerIsOwn
  <2>1. /\ cur \in Command
        /\ answers'[cur] = Append(answers[cur], NewAnswer)
        /\ c # cur => answers'[c] = answers[c]
        /\ answers[c] \in Seq(Answer)
    BY <1>2, AppendType DEF TypeOK
  <2>2. CASE i \in DOMAIN answers[c]
    <3>1. answers'[c][i] = answers[c][i]
      BY <2>1, <2>2
    <3> QED
      BY <2>2, <3>1 DEF AnswerIsOwn
  <2>3. CASE i \notin DOMAIN answers[c]
    <3>1. c = cur /\ answers'[c][i] = NewAnswer
      BY <2>1, <2>3
    <3> QED
      BY <1>2, <3>1 DEF NewAnswer, GlobalsAreOwn, Writing
  <2> QED
    BY <2>2, <2>3
<1> QED
  BY <1>1, <1>2, WhoAnswers

\* Whatever ends the writing of an answer appends it or notes what it was lost to.
LEMMA MarkedStep ==
    ASSUME TypeOK, MarkedIsAnswered, [Next]_vars PROVE MarkedIsAnswered'
<1> SUFFICES ASSUME NEW c \in Command, status'[c] = "1", answers'[c] = << >>
             PROVE  lost'[c] \in Cause \/ (cur' = c /\ main' \in Writing)
  BY DEF MarkedIsAnswered
<1>1. answers[c] = << >> /\ (answers' = answers \/ c # cur)
  <2>1. CASE answers' = answers
    BY <2>1
  <2>2. CASE /\ main = "commit"
             /\ answers' = [answers EXCEPT ![cur] = Append(@, NewAnswer)]
    <3>1. /\ answers'[cur] = Append(answers[cur], NewAnswer)
          /\ c # cur => answers'[c] = answers[c]
          /\ cur \in Command /\ answers[cur] \in Seq(Answer)
      BY <2>2, AppendType DEF TypeOK
    <3>2. Append(answers[cur], NewAnswer) # << >>
      BY <3>1
    <3> QED
      BY <3>1, <3>2
  <2> QED
    BY <2>1, <2>2, WhoAnswers
<1>2. CASE status' # status
  <2>1. /\ main = "mark" /\ main' = "insert" /\ cur' = cur /\ lost' = lost
        /\ status' = [status EXCEPT ![cur] = "1"]
    BY <1>2, WhoMarks
  <2>2. CASE c = cur
    BY <2>1, <2>2 DEF Writing
  <2>3. CASE c # cur
    <3>1. status[c] = "1"
      BY <2>1, <2>3 DEF TypeOK
    <3> QED
      BY <1>1, <2>1, <3>1 DEF MarkedIsAnswered, Writing
  <2> QED
    BY <2>2, <2>3
<1>3. CASE status' = status
  <2>1. lost[c] \in Cause \/ (cur = c /\ main \in Writing)
    BY <1>1, <1>3 DEF MarkedIsAnswered
  <2>2. CASE lost[c] \in Cause
    BY <2>2, LostKept
  <2>3. CASE cur = c /\ main \in Writing
    <3>1. answers' = answers /\ status[cur] = "1" /\ cur \in Command
      BY <1>1, <1>3, <2>3
    <3>2. ASSUME NEW cause \in Cause, Lose(cause) PROVE lost'[c] \in Cause
      BY <2>3, <3>1, <3>2, LoseType
    <3>3. CASE Ends
      <4>1. Lose("ended") /\ "ended" \in Cause
        BY <2>3, <3>3, EndsIsEndNow DEF EndNow, Cause
      <4> QED
        BY <3>2, <4>1
    <3>4. CASE Insert
      BY <2>3, <3>4 DEF Insert, AfterFailedInsert, globals, Writing
    <3>5. CASE Retry
      <4>1. CASE main' = "commit"
        BY <2>3, <3>5, <4>1 DEF Retry, globals, Writing
      <4>2. CASE Lose("refused")
        BY <3>2, <4>2 DEF Cause
      <4> QED
        BY <3>5, <4>1, <4>2 DEF Retry
    <3>6. CASE Commit
      <4>1. main = "commit"
        BY <3>6 DEF Commit
      <4>2. Len(Append(answers[cur], NewAnswer)) # Len(answers[cur])
        BY <3>1 DEF TypeOK
      <4>3. answers' # [answers EXCEPT ![cur] = Append(@, NewAnswer)]
        BY <3>1, <4>1, <4>2, AppendType
      <4>4. Lose("uncommitted") /\ "uncommitted" \in Cause
        BY <3>6, <4>3 DEF Commit, Cause
      <4> QED
        BY <3>2, <4>4
    <3>7. CASE UNCHANGED vars
      BY <2>3, <3>7 DEF vars, globals
    <3> QED
      BY <2>3, <3>3, <3>4, <3>5, <3>6, <3>7 DEF Next, Loop, Ends, GetCommand,
         Lookup, NoSuchCommand, Send, Mark, Start, Receive, AlarmTooEarly,
         Writing
  <2> QED
    BY <2>1, <2>2, <2>3
<1> QED
  BY <1>2, <1>3

\* The failed marks and the ends that are counted for a command.
LEMMA Counts ==
    ASSUME TypeOK, NEW c \in Command
    PROVE  /\ unmarked[c] \in Nat /\ unended[c] \in Nat /\ served[c] \in Nat
           /\ Len(answers[c]) \in Nat
BY DEF TypeOK

LEMMA AnswersStep ==
    ASSUME TypeOK, TypeOK', NotMarkedYet, AnswersAccounted, [Next]_vars
    PROVE  AnswersAccounted'
<1> SUFFICES ASSUME NEW c \in Command
             PROVE  Len(answers'[c]) + Answering(c)' <= unmarked'[c] + Marked(c)'
  BY DEF AnswersAccounted
<1>c. /\ unmarked[c] \in Nat /\ Len(answers[c]) \in Nat
      /\ unmarked'[c] \in Nat /\ Len(answers'[c]) \in Nat
      /\ Len(answers[c]) + Answering(c) <= unmarked[c] + Marked(c)
      /\ Answering(c) \in {0, 1}
  <2>1. answers[c] \in Seq(Answer) /\ answers'[c] \in Seq(Answer)
    BY DEF TypeOK
  <2>2. unmarked[c] \in Nat /\ unmarked'[c] \in Nat
    BY DEF TypeOK
  <2>3. Answering(c) \in {0, 1}
    BY DEF Answering
  <2> QED
    BY <2>1, <2>2, <2>3 DEF AnswersAccounted
<1>1. CASE Start \/ GetCommand \/ Lookup \/ NoSuchCommand \/ AlarmTooEarly
           \/ Send \/ Receive
  <2>1. /\ main' \notin Writing
        /\ answers' = answers /\ status' = status /\ unmarked' = unmarked
    BY <1>1 DEF Start, GetCommand, Lookup, NoSuchCommand, AfterUnknown,
         AlarmTooEarly, Send, Receive, Writing, tables, ghosts
  <2>2. Answering(c)' = 0 /\ Marked(c)' = Marked(c)
    BY <2>1 DEF Answering, Marked
  <2> QED
    BY <1>c, <2>1, <2>2 DEF Marked
<1>2. CASE Ends
  <2>1. /\ main' = "down"
        /\ answers' = answers /\ status' = status /\ unmarked' = unmarked
    BY <1>2, EndsIsEndNow DEF EndNow, tables
  <2>2. Answering(c)' = 0 /\ Marked(c)' = Marked(c) /\ Marked(c) \in {0, 1}
    BY <2>1 DEF Answering, Writing, Marked
  <2> QED
    BY <1>c, <2>1, <2>2
<1>3. CASE Mark
  <2>1. /\ main = "mark" /\ main' = "insert" /\ cur' = cur /\ answers' = answers
        /\ cur \in Command /\ status[cur] = "0"
    BY <1>3 DEF Mark, globals, NotMarkedYet, TypeOK
  <2>2. CASE /\ status' = [status EXCEPT ![cur] = "1"]
             /\ unmarked' = unmarked
    BY <1>c, <2>1, <2>2 DEF Answering, Writing, Marked, TypeOK
  <2>3. CASE /\ unmarked' = [unmarked EXCEPT ![cur] = @ + 1]
             /\ status' = status
    BY <1>c, <2>1, <2>3 DEF Answering, Writing, Marked, TypeOK
  <2> QED
    BY <1>3, <2>2, <2>3 DEF Mark
<1>4. CASE Insert \/ Retry \/ Commit
  <2>1. /\ main \in Writing /\ main' \in Writing \cup {"fetch"}
        /\ cur' = cur /\ status' = status /\ unmarked' = unmarked
    BY <1>4 DEF Insert, Retry, Commit, AfterFailedInsert, Writing, globals,
                tables, ghosts
  <2>m. Marked(c)' = Marked(c) /\ Marked(c) \in {0, 1}
    BY <2>1 DEF Marked
  <2>2. CASE answers' = answers
    <3>1. Answering(c)' <= Answering(c)
      BY <2>1 DEF Answering
    <3>2. Answering(c)' \in {0, 1}
      BY DEF Answering
    <3> QED
      BY <1>c, <2>1, <2>m, <2>2, <3>1, <3>2
  <2>3. CASE /\ answers' = [answers EXCEPT ![cur] = Append(@, NewAnswer)]
             /\ main = "commit" /\ main' = "fetch"
    <3>1. /\ answers'[cur] = Append(answers[cur], NewAnswer)
          /\ c # cur => answers'[c] = answers[c]
          /\ cur \in Command /\ answers[cur] \in Seq(Answer)
      BY <2>1, <2>3, AppendType DEF TypeOK
    <3>2. Answering(c)' = 0 /\ (c = cur => Answering(c) = 1)
      BY <2>1, <2>3 DEF Answering, Writing
    <3>3. CASE c = cur
      <4>1. Len(answers'[c]) = Len(answers[c]) + 1
        BY <3>1, <3>3
      <4> QED
        BY <1>c, <2>1, <2>m, <3>2, <3>3, <4>1
    <3>4. CASE c # cur
      BY <1>c, <2>1, <2>m, <3>1, <3>2, <3>4
    <3> QED
      BY <3>3, <3>4
  <2> QED
    BY <1>4, <2>2, <2>3 DEF Insert, Retry, Commit, tables
<1>5. CASE UNCHANGED vars
  BY <1>c, <1>5 DEF vars, globals, tables, ghosts, Answering, Marked
<1> QED
  BY <1>1, <1>2, <1>3, <1>4, <1>5 DEF Next, Loop, Ends

LEMMA ServedStep ==
    ASSUME TypeOK, TypeOK', NotMarkedYet, ServedAccounted, [Next]_vars
    PROVE  ServedAccounted'
<1> SUFFICES ASSUME NEW c \in Command
             PROVE  served'[c] <= unmarked'[c] + unended'[c] + Marked(c)'
                                     + InFlight(c)'
  BY DEF ServedAccounted
<1>c. /\ unmarked[c] \in Nat /\ unended[c] \in Nat /\ served[c] \in Nat
      /\ unmarked'[c] \in Nat /\ unended'[c] \in Nat /\ served'[c] \in Nat
      /\ served[c] <= unmarked[c] + unended[c] + Marked(c) + InFlight(c)
  BY DEF ServedAccounted, TypeOK
<1>1. CASE Start \/ GetCommand \/ Lookup \/ NoSuchCommand \/ AlarmTooEarly
           \/ Receive
  <2>1. /\ served' = served /\ status' = status
        /\ unmarked' = unmarked /\ unended' = unended
    BY <1>1 DEF Start, GetCommand, Lookup, NoSuchCommand, AlarmTooEarly,
         Receive, tables, ghosts
  <2>2. Marked(c)' = Marked(c) /\ Marked(c) \in {0, 1}
    BY <2>1 DEF Marked
  <2>3. InFlight(c) <= InFlight(c)' /\ {InFlight(c), InFlight(c)'} \subseteq {0, 1}
    BY <1>1 DEF Start, GetCommand, Lookup, NoSuchCommand, AfterUnknown,
         AlarmTooEarly, Receive, globals, InFlight
  <2> QED
    BY <1>c, <2>1, <2>2, <2>3
<1>2. CASE Ends
  <2>1. EndNow
    BY <1>2, EndsIsEndNow
  <2>2. unended'[c] = unended[c] + InFlight(c)
    <3>1. unended' = IF main \in {"wait", "mark"}
                     THEN [unended EXCEPT ![cur] = @ + 1] ELSE unended
      BY <2>1 DEF EndNow
    <3>2. unended \in [Command -> Nat]
      BY DEF TypeOK
    <3> QED
      BY <1>c, <3>1, <3>2 DEF InFlight
  <2> QED
    BY <1>c, <2>1, <2>2 DEF EndNow, tables, InFlight, Marked
<1>3. CASE Send
  <2>1. /\ main = "connect" /\ main' = "wait" /\ cur' = cur
        /\ status' = status /\ unmarked' = unmarked /\ unended' = unended
        /\ served' = [served EXCEPT ![cur] = @ + 1] /\ cur \in Command
    BY <1>3 DEF Send, globals, tables, ghosts, TypeOK
  <2>2. Marked(c)' = Marked(c) /\ Marked(c) \in {0, 1}
    BY <2>1 DEF Marked
  <2>3. InFlight(c) = 0 /\ InFlight(c)' = IF c = cur THEN 1 ELSE 0
    BY <2>1 DEF InFlight
  <2>4. served'[c] = IF c = cur THEN served[c] + 1 ELSE served[c]
    BY <2>1 DEF TypeOK
  <2> QED
    BY <1>c, <2>1, <2>2, <2>3, <2>4
<1>4. CASE Mark
  <2>1. /\ main = "mark" /\ main' = "insert" /\ cur' = cur /\ served' = served
        /\ unended' = unended /\ cur \in Command /\ status[cur] = "0"
    BY <1>4 DEF Mark, globals, NotMarkedYet, TypeOK
  <2>2. CASE /\ status' = [status EXCEPT ![cur] = "1"]
             /\ unmarked' = unmarked
    BY <1>c, <2>1, <2>2 DEF InFlight, Marked, TypeOK
  <2>3. CASE /\ unmarked' = [unmarked EXCEPT ![cur] = @ + 1]
             /\ status' = status
    BY <1>c, <2>1, <2>3 DEF InFlight, Marked, TypeOK
  <2> QED
    BY <1>4, <2>2, <2>3 DEF Mark
<1>5. CASE Insert \/ Retry \/ Commit
  <2>1. /\ main \notin {"wait", "mark"} /\ main' \notin {"wait", "mark"}
        /\ served' = served /\ status' = status
        /\ unmarked' = unmarked /\ unended' = unended
    BY <1>5 DEF Insert, Retry, Commit, AfterFailedInsert, tables, ghosts
  <2> QED
    BY <1>c, <2>1 DEF InFlight, Marked
<1>6. CASE UNCHANGED vars
  BY <1>c, <1>6 DEF vars, globals, tables, ghosts, InFlight, Marked
<1> QED
  BY <1>1, <1>2, <1>3, <1>4, <1>5, <1>6 DEF Next, Loop, Ends

-----------------------------------------------------------------------------
(* The theorems.                                                           *)

LEMMA InvInit == Init => IInv
<1> SUFFICES ASSUME Init PROVE IInv
  OBVIOUS
<1>1. TypeOK
  BY TypeInit
<1>2. GlobalsAreOwn /\ NotMarkedYet
  BY DEF Init, GlobalsAreOwn, NotMarkedYet, Writing
<1>3. AnswerIsOwn /\ MarkedIsAnswered
  BY DEF Init, AnswerIsOwn, MarkedIsAnswered
<1>4. AnswersAccounted
  <2> SUFFICES ASSUME NEW c \in Command
               PROVE  Len(answers[c]) + Answering(c) <= unmarked[c] + Marked(c)
    BY DEF AnswersAccounted
  <2>1. Len(answers[c]) = 0 /\ unmarked[c] = 0
    BY DEF Init
  <2>2. Answering(c) = 0 /\ Marked(c) = 0
    BY DEF Init, Answering, Writing, Marked
  <2> QED
    BY <2>1, <2>2
<1>5. ServedAccounted
  <2> SUFFICES ASSUME NEW c \in Command
               PROVE  served[c] <= unmarked[c] + unended[c] + Marked(c)
                                     + InFlight(c)
    BY DEF ServedAccounted
  <2>1. served[c] = 0 /\ unmarked[c] = 0 /\ unended[c] = 0
    BY DEF Init
  <2>2. InFlight(c) = 0 /\ Marked(c) = 0
    BY DEF Init, InFlight, Marked
  <2> QED
    BY <2>1, <2>2
<1> QED
  BY <1>1, <1>2, <1>3, <1>4, <1>5 DEF IInv

LEMMA InvStep == IInv /\ [Next]_vars => IInv'
<1> SUFFICES ASSUME IInv, [Next]_vars PROVE IInv'
  OBVIOUS
<1>1. TypeOK'
  BY TypeStep DEF IInv
<1>2. /\ TypeOK /\ GlobalsAreOwn /\ NotMarkedYet /\ AnswerIsOwn
      /\ MarkedIsAnswered /\ AnswersAccounted /\ ServedAccounted
  BY DEF IInv
<1>3. /\ GlobalsAreOwn' /\ NotMarkedYet' /\ AnswerIsOwn' /\ MarkedIsAnswered'
  BY <1>2, GlobalsStep, NotMarkedStep, AnswerIsOwnStep, MarkedStep
<1>4. AnswersAccounted' /\ ServedAccounted'
  BY <1>1, <1>2, AnswersStep, ServedStep
<1> QED
  BY <1>1, <1>3, <1>4 DEF IInv

\* The inductive invariant of the daemon holds.
THEOREM InvariantHolds == Spec => []IInv
BY InvInit, InvStep, PTL DEF Spec

\* A command that has gone to the centre is answered with its own return code
\* and number, whatever the global variables held before.
THEOREM AnswerIsOwnHolds == Spec => []AnswerIsOwn
<1>1. IInv => AnswerIsOwn
  BY DEF IInv
<1> QED
  BY <1>1, InvariantHolds, PTL

\* A command marked as sent has its answer, or it is being written, unless the
\* daemon ended before the COMMIT of the answer, both INSERTs failed, or that
\* COMMIT failed.
THEOREM MarkedIsAnsweredHolds == Spec => []MarkedIsAnswered
<1>1. IInv => MarkedIsAnswered
  BY DEF IInv
<1> QED
  BY <1>1, InvariantHolds, PTL

\* Repetitions are paid for: an answer by a failed mark, a request by a failed
\* mark or an end of the daemon before the mark.
THEOREM RepeatsAccountedHolds == Spec => []RepeatsAccounted
<1>1. IInv => RepeatsAccounted
  <2> SUFFICES ASSUME IInv, NEW c \in Command
               PROVE  /\ Len(answers[c]) <= 1 + unmarked[c]
                      /\ served[c] <= 1 + unmarked[c] + unended[c]
    BY DEF RepeatsAccounted
  <2>1. TypeOK /\ AnswersAccounted /\ ServedAccounted /\ NotMarkedYet
    BY DEF IInv
  <2>2. /\ Len(answers[c]) + Answering(c) <= unmarked[c] + Marked(c)
        /\ served[c] <= unmarked[c] + unended[c] + Marked(c) + InFlight(c)
    BY <2>1 DEF AnswersAccounted, ServedAccounted
  <2>3. /\ Marked(c) \in {0, 1} /\ Answering(c) \in {0, 1}
        /\ Marked(c) + InFlight(c) <= 1
    BY <2>1 DEF NotMarkedYet, Marked, InFlight, Answering
  <2> QED
    BY <2>1, <2>2, <2>3, Counts DEF InFlight
<1> QED
  BY <1>1, InvariantHolds, PTL
=============================================================================
