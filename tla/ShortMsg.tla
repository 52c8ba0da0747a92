------------------------------- MODULE ShortMsg -------------------------------
(***************************************************************************)
(* pubShortMsg: how a service composes a short message and puts it into a  *)
(* channel table.  The parameters of a message live in one Lua interpreter *)
(* per process: PrepareNewShortMsg empties them and sets the defaults,     *)
(* SetShortMsgParameter adds to them, GenerateShortMsg builds the text and *)
(* dispatches it.  Every call gets a model number, but the parameters are  *)
(* not kept by model, so the calls for two messages can be told apart only *)
(* by their order.  Transactions belong to the caller.                     *)
(*                                                                         *)
(* All messages are for one phone number.  A text is the sequence of its   *)
(* characters, as far as ChnStrSplit and Trim tell them apart.             *)
(***************************************************************************)
EXTENDS Integers, Sequences, FiniteSetsExt

\* A Chinese character, another visible one, a space, and the other characters
\* up to the space, as a line feed.
Char == {"wide", "byte", "blank", "control"}

CONSTANTS Model,      \* sm_model_id
          NoModel,
          Key,        \* parameter names
          Mandatory,  \* SSMMPARAMLIST: the mandatory keys of a model
          Default,    \* and its keys with a default value
          Used,       \* the keys in model_pattern
          ExpPolicy,  \* sSMModel.exp_policy: "0", "1" or computed
          FoldPolicy, \* sSMModel.fold_policy: "0" cut, "1" and "2" two pieces
          SmType,     \* sSMModel.default_sm_type: "push", "long", "norm"
          Op,         \* busi_code
          SendTime,   \* values of the parameter _SEND_TIME, "" for none
          Channel,    \* the channel tables
          OwnChannel,   \* SBUSISMRELATION: those reserved for a busi_code
          GroupChannel, \* SSMCHANNEL: those of a model's work group
          Text,       \* the texts a caller's values can give a model
          Field,      \* bytes of msg and of append_msg, 1000 in the code
          NormLen,    \* characters of an ordinary message, 70 in the code
          MaxCalls    \* bound on PrepareNewShortMsg and on rows inserted

ASSUME ShortMsgAssumption ==
    /\ NoModel \notin Model
    /\ Mandatory \in [Model -> SUBSET Key]
    /\ Default \in [Model -> SUBSET Key]
    /\ Used \in [Model -> SUBSET Key]
    /\ ExpPolicy \in [Model -> {"0", "1", "2"}]
    /\ FoldPolicy \in [Model -> {"0", "1", "2"}]
    /\ SmType \in [Model -> {"push", "long", "norm"}]
    /\ OwnChannel \in [Op -> SUBSET Channel]
    /\ GroupChannel \in [Model -> SUBSET Channel]
    /\ Op \cap SendTime = {}
    /\ Text \in [Model -> SUBSET Seq(Char)]
    /\ Field \in Nat \ {0, 1} /\ NormLen \in Nat /\ 2 * NormLen <= Field
    /\ MaxCalls \in Nat

VARIABLES
    lib,     \* whether L is an interpreter
    params,  \* smparams.data
    serial,  \* calls of PrepareNewShortMsg
    current, \* the model of the last one, until its message is generated
    mixed,   \* since then a parameter was set for another message
    pool,    \* the rows of the channel tables
    nextval  \* the sequence of command_id

composing == <<serial, current, mixed>>
vars == <<lib, params, composing, pool, nextval>>

-----------------------------------------------------------------------------
NotSet == [call |-> 0, model |-> NoModel]  \* params[key] is nil
NoTable == <<>>                            \* smparams is nil

\* A value is named by the last call of PrepareNewShortMsg before it was set
\* and by the model it was set for.
Value == [call : 1 .. MaxCalls, model : Model] \cup {NotSet}

\* The characters from the first to the last position, none if last < first.
Piece == [first : Nat, last : Nat]

Row == [id : 1 .. MaxCalls, model : Model, op : Op, channel : Channel,
        values : [Key -> Value], call : 1 .. MaxCalls, inOrder : BOOLEAN,
        text : Seq(Char), msg : Piece, append : Piece]

TypeOK ==
    /\ lib \in BOOLEAN
    /\ params \in {NoTable} \cup [Key -> Value]
    /\ ~lib => params = NoTable
    /\ serial \in 0 .. MaxCalls
    /\ current \in Model \cup {NoModel}
    /\ mixed \in BOOLEAN
    /\ pool \subseteq Row
    /\ \A r \in pool : /\ r.id <= nextval
                       /\ r.msg.last <= Len(r.text)
                       /\ r.append.last <= Len(r.text)
    /\ nextval \in 0 .. MaxCalls

Init ==
    /\ lib = FALSE
    /\ params = NoTable
    /\ serial = 0
    /\ current = NoModel
    /\ mixed = FALSE
    /\ pool = {}
    /\ nextval = 0

\* A new interpreter knows no smparams; one that was there is lost with it.
InitShortMsgLib ==
    /\ lib' = TRUE
    /\ params' = NoTable
    /\ UNCHANGED <<composing, pool, nextval>>

DestroyShortMsgLib ==
    /\ lib' = FALSE
    /\ params' = NoTable
    /\ UNCHANGED <<composing, pool, nextval>>

-----------------------------------------------------------------------------
(* Parameters.                                                             *)

\* Mutant: what an earlier message has left is kept.
InitialKeeps == IF params = NoTable THEN [k \in Key |-> NotSet] ELSE params

\* The Lua function Initial.
Initial == [k \in Key |-> NotSet]

\* The cursor over the defaults may fail anywhere: the call returns an error
\* and leaves the defaults it has set.
PrepareNewShortMsg(m) ==
    /\ lib
    /\ serial < MaxCalls
    /\ serial' = serial + 1
    /\ current' = m
    /\ mixed' = FALSE
    /\ \E set \in SUBSET Default[m] :
          params' = [k \in Key |-> IF k \in set
                                   THEN [call |-> serial + 1, model |-> m]
                                   ELSE Initial[k]]
    /\ UNCHANGED <<lib, pool, nextval>>

\* SetParameter does not look at the model number.
SetShortMsgParameter(m, key) ==
    /\ lib
    /\ params # NoTable      \* otherwise a Lua error
    /\ params' = [params EXCEPT ![key] = [call |-> serial, model |-> m]]
    /\ mixed' = (mixed \/ m # current)
    /\ UNCHANGED <<lib, serial, current, pool, nextval>>

CheckMandatoryParameters(m) == \A k \in Mandatory[m] : params[k] # NotSet

-----------------------------------------------------------------------------
(* The text.                                                               *)

Width(c) == IF c = "wide" THEN 2 ELSE 1

\* The bytes of the first n characters, for each n.
Widths(text) ==
    LET w[n \in 0 .. Len(text)] == IF n = 0 THEN 0 ELSE w[n - 1] + Width(text[n])
    IN  w

\* The bytes of the characters from the first to the last, if there are any.
Bytes(text, first, last) == Widths(text)[last] - Widths(text)[first - 1]

\* ChnStrSplit behind the first skip characters, the position of the last
\* one it takes: as many whole characters as the field has room for.
ChnStrSplit(text, skip) ==
    CHOOSE n \in skip .. Len(text) :
        /\ Bytes(text, skip + 1, n) <= Field
        /\ n < Len(text) => Bytes(text, skip + 1, n + 1) > Field

Visible(text, p) == {i \in p.first .. p.last : text[i] \in {"wide", "byte"}}

\* Mutant: the end is taken for the last character.
StrippedPastEnd(text, p) ==
    IF Visible(text, p) = {}
    THEN [first |-> p.first, last |-> p.first - 1]
    ELSE [first |-> Min(Visible(text, p)), last |-> Max(Visible(text, p)) + 1]

\* The piece without what Trim takes off its ends.
Stripped(text, p) ==
    IF Visible(text, p) = {}
    THEN [first |-> p.first, last |-> p.first - 1]
    ELSE [first |-> Min(Visible(text, p)), last |-> Max(Visible(text, p))]

\* Trim looks for a space first and without one changes nothing.
Trim(text, p) ==
    IF \E i \in p.first .. p.last : text[i] = "blank"
    THEN Stripped(text, p) ELSE p

Whole(text) == [first |-> 1, last |-> Len(text)]
Nothing == [first |-> 1, last |-> 0]

\* Mutant: the second piece starts at the beginning again.
TwoPiecesFromStart(text) ==
    LET a == [first |-> 1, last |-> ChnStrSplit(text, 0)]
    IN  [msg |-> Trim(text, a), append |-> Trim(text, a)]

\* The second piece begins where the first was split, not where its spaces
\* were stripped.
TwoPieces(text) ==
    LET n == ChnStrSplit(text, 0)
    IN  [msg |-> Trim(text, [first |-> 1, last |-> n]),
         append |-> Trim(text, [first |-> n + 1, last |-> ChnStrSplit(text, n)])]

\* The cut text comes from the database in a variable padded with spaces, so
\* that Trim always finds one.
Cut(text) ==
    [msg |-> Stripped(text, [first |-> 1, last |-> NormLen]), append |-> Nothing]

\* What DispatchShortMsg inserts of a text; no element if it returns an error.
Inserted(m, text) ==
    CASE SmType[m] = "push" ->
             {[msg |-> p, append |-> Nothing] :
                  p \in {q \in {Whole(text)} : Bytes(text, 1, q.last) <= Field}}
      [] SmType[m] = "long" -> {TwoPieces(text)}
      [] SmType[m] = "norm" /\ Len(text) <= NormLen ->
             {[msg |-> Whole(text), append |-> Nothing]}
      [] SmType[m] = "norm" /\ Len(text) > NormLen /\ FoldPolicy[m] = "0" ->
             {Cut(text)}
      [] OTHER -> {TwoPieces(text)}

-----------------------------------------------------------------------------
(* Dispatching.                                                            *)

\* One of these is drawn by rand.
QryShortMsgChannel(m, op) ==
    IF OwnChannel[op] # {} THEN OwnChannel[op] ELSE GroupChannel[m]

\* DELETE FROM channel WHERE sm_model_id = :v1 and phone_no = :v2 and
\* busi_code = :v3.  The value bound to :v3 is the send time.
DeleteSameTypeMsg(m, channel, sendTime) ==
    {r \in pool : r.model = m /\ r.channel = channel /\ r.op = sendTime}

Kept(m, channel, sendTime) ==
    IF ExpPolicy[m] = "1"
    THEN pool \ DeleteSameTypeMsg(m, channel, sendTime) ELSE pool

DispatchShortMsg(m, op, sendTime) ==
    /\ nextval < MaxCalls
    /\ nextval' = nextval + 1
    /\ \E channel \in QryShortMsgChannel(m, op), text \in Text[m] :
          \E p \in Inserted(m, text) :
              pool' = Kept(m, channel, sendTime) \cup
                  {[id |-> nextval + 1, model |-> m, op |-> op,
                    channel |-> channel, values |-> params, call |-> serial,
                    inOrder |-> m = current /\ ~mixed,
                    text |-> text, msg |-> p.msg, append |-> p.append]}
    /\ current' = NoModel

\* An error before the INSERT, or of the INSERT: what was deleted stays
\* deleted.
DispatchFails(m, op, sendTime) ==
    /\ \/ UNCHANGED pool
       \/ \E channel \in QryShortMsgChannel(m, op) :
              pool' = Kept(m, channel, sendTime)
    /\ UNCHANGED <<current, nextval>>

\* GenerateShortMsg: a pattern that names a missing parameter is a Lua error.
\* The parameters stay as they are, whatever the outcome.
GenerateShortMsg(m, op) ==
    /\ lib
    /\ params # NoTable
    /\ CheckMandatoryParameters(m)
    /\ \A k \in Used[m] : params[k] # NotSet
    /\ \E sendTime \in SendTime :
          \/ DispatchShortMsg(m, op, sendTime)
          \/ DispatchFails(m, op, sendTime)
    /\ UNCHANGED <<lib, params, serial, mixed>>

\* The gateway sends a message and takes it out of its table.
Gateway ==
    \E r \in pool :
        /\ pool' = pool \ {r}
        /\ UNCHANGED <<lib, params, composing, nextval>>

Next ==
    \/ InitShortMsgLib \/ DestroyShortMsgLib \/ Gateway
    \/ \E m \in Model : PrepareNewShortMsg(m)
    \/ \E m \in Model, k \in Key : SetShortMsgParameter(m, k)
    \/ \E m \in Model, op \in Op : GenerateShortMsg(m, op)

Spec == Init /\ [][Next]_vars

-----------------------------------------------------------------------------
(* Properties.                                                             *)

\* The parameters of a message, though they are not kept by model.  Whatever
\* calls come for whatever models in whatever order, nothing that was set
\* before the last PrepareNewShortMsg gets into a message, be it of a message
\* that was generated, given up or failed, and no message lacks a parameter its
\* model needs.  A message whose calls come in the order of publicBill and
\* pubDsmpFunc has only values set for itself: the last PrepareNewShortMsg was
\* its own, nothing was set for another model and no message generated since.
\* In another order, as with two PrepareNewShortMsg before a GenerateShortMsg
\* or two GenerateShortMsg after one, values do get into the wrong message.
MessageIsOwn ==
    \A r \in pool :
        /\ \A k \in Key : r.values[k] # NotSet =>
               /\ r.values[k].call = r.call
               /\ r.inOrder => r.values[k].model = r.model
        /\ \A k \in Mandatory[r.model] \cup Used[r.model] : r.values[k] # NotSet

\* The characters of a row.
Positions(r) == (r.msg.first .. r.msg.last) \cup (r.append.first .. r.append.last)

\* The i-th character of the text need not be in the row: fold policy 0 cuts it
\* off, or the characters up to it fill two fields.
Beyond(r, i) ==
    IF FoldPolicy[r.model] = "0" /\ SmType[r.model] = "norm"
           /\ Len(r.text) > NormLen
    THEN i > NormLen ELSE Bytes(r.text, 1, i) >= 2 * Field

\* No piece exceeds its field, they are in the order of the text and share no
\* character, and all a text loses besides its end is spaces and control
\* characters, which Trim takes from the ends of a piece: at the border of two
\* fields, too, where they are in the midst of the text.
TextKept ==
    \A r \in pool :
        /\ \A p \in {r.msg, r.append} :
               p.first <= p.last => Bytes(r.text, p.first, p.last) <= Field
        /\ \A i \in r.msg.first .. r.msg.last,
              j \in r.append.first .. r.append.last : i < j
        /\ \A i \in 1 .. Len(r.text) :
               i \in Positions(r) \/ r.text[i] \in {"blank", "control"}
                   \/ Beyond(r, i)

\* What the comment in DispatchShortMsg says of exp_policy 1: the messages of
\* the same type in the pool are deleted, so that only the last one is there.
SameTypeReplaced ==
    \A r, q \in pool :
        /\ r.model = q.model /\ r.op = q.op /\ r.channel = q.channel
        /\ ExpPolicy[r.model] = "1"
        => r = q
=============================================================================
