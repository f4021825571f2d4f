----------------------------- MODULE StreamParse -----------------------------
(***************************************************************************)
(* How a response body becomes frames, and the frames the tokens of a row. *)
(* A body is a sequence of symbols: the bytes CR and LF, and whole lines,  *)
(* each one symbol (a line cut by the end of the body is the symbol Torn,  *)
(* a line cut between two chunks is in the buffer before it is looked at). *)
(* Every body is about one message: what it cost, and the counts its       *)
(* message_delta events report, each a running total.                      *)
(***************************************************************************)
EXTENDS Integers, Sequences, FiniteSets, FiniteSetsExt, SequencesExt

CONSTANTS Messages, \* the messages an upstream may send
          Scripts   \* the streams they may be sent as: sequences of events,
                    \* each a sequence of lines

CR == "CR"
LF == "LF"
Torn == "torn"
Deltas == <<"delta1", "delta2">>

Endings == {<<LF>>, <<CR>>, <<CR, LF>>}

Names == {"named start", "named delta", "named stop"}
Data == {"start", "delta1", "delta2", "stop", "done", "body", Torn}
Lines == Names \cup Data \cup {"ping"}

\* The type of an event, by its data or by its name.
TypeOf == [line \in Lines |->
    CASE line \in {"start", "named start"} -> "message_start"
      [] line \in {"delta1", "delta2", "named delta"} -> "message_delta"
      [] line \in {"stop", "named stop"} -> "message_stop"
      [] line = "body" -> "message"
      [] OTHER -> ""]

\* An event of a stream: at most one line of data, and names that agree with it.
IsEvent(e) ==
    /\ e \in Seq(Lines \ {"body"}) \ {<<>>}
    /\ \A i, j \in 1..Len(e) :
        /\ {e[i], e[j]} \subseteq Data => i = j
        /\ e[i] \in Names /\ e[j] \in (Names \cup Data) \ {Torn} => TypeOf[e[i]] = TypeOf[e[j]]

\* Nothing restarts a message, and its totals come in their order.
InOrder(s) ==
    LET rank == [line \in Lines |->
                    CASE line = "start" -> 1 [] line = "delta1" -> 2 [] line = "delta2" -> 3 [] OTHER -> 0]
    IN  \A i, j \in 1..Len(s) : i < j =>
            \A x \in ToSet(s[i]), y \in ToSet(s[j]) : rank[y] # 0 => rank[x] <= rank[y]

ASSUME StreamAssumption ==
    /\ \A m \in Messages :
        /\ {m.input, m.read, m.split, m.flat, m.w5, m.w1, m.first} \subseteq Nat
        /\ m.outputs \in [1..2 -> Nat] /\ m.first <= m.outputs[1] /\ m.outputs[1] <= m.outputs[2]
        /\ m.split = 1 => m.flat = m.w5 + m.w1
    /\ \A s \in Scripts :
        /\ \A i \in 1..Len(s) : IsEvent(s[i])
        /\ s \in Seq(Seq(Lines)) /\ InOrder(s)

VARIABLES message, script, content,
          wire,     \* what is yet to be fed
          buf,      \* SSEParser: the carry,
          frames,   \* the frames so far,
          sawStop,  \* sawMessageStop
          usage     \* the folded usage, once the body has ended

streamVars == <<message, script, content, wire, buf, frames, sawStop, usage>>

NoUsage == [input |-> 0, output |-> 0, w5 |-> 0, w1 |-> 0, read |-> 0,
            thinking |-> 0, stop |-> "", unsplit |-> FALSE]

-----------------------------------------------------------------------------
(* Frames. *)

Occurs(t, s, i) == i + Len(t) - 1 <= Len(s) /\ SubSeq(s, i, i + Len(t) - 1) = t

Ends(terminators, s) == {e \in (1..Len(s)) \X terminators : Occurs(e[2], s, e[1])}

FirstEnd(terminators, s) ==
    LET ends == Ends(terminators, s)
    IN  IF ends = {} THEN <<>> ELSE CHOOSE e \in ends : \A f \in ends : e[1] <= f[1]

\* A mutated FindEvent: only "\n\n" ends an event.
FindEventOfUnix(s) == FirstEnd({<<LF, LF>>}, s)

\* The first blank line of s, as <<where, which>>.  A tail that may be the
\* start of one matches none, and so stays in the carry.
FindEvent(s) == FirstEnd({<<LF, LF>>, <<CR, CR>>, <<CR, LF, CR, LF>>}, s)

\* parseEvent: no frame without data, nor for the [DONE] sentinel.  Of several
\* names the last counts.
ParseEvent(raw) ==
    LET read[i \in 0..Len(raw)] ==
            IF i = 0 THEN [data |-> <<>>, name |-> ""]
            ELSE LET line == raw[i]
                     above == read[i - 1]
                 IN  [data |-> IF line \in Data THEN Append(above.data, line) ELSE above.data,
                      name |-> IF line \in Names THEN TypeOf[line] ELSE above.name]
        event == read[Len(raw)]
    IN  IF event.data \in {<<>>, <<"done">>} THEN <<>>
        ELSE <<[type |-> IF event.name # "" THEN event.name
                         ELSE IF Len(event.data) = 1 THEN TypeOf[event.data[1]] ELSE "",
                data |-> event.data]>>

\* The loop of Feed: what it leaves in the carry, and the frames it finds.
Drained(s) ==
    LET cut[n \in 0..Len(s)] ==
            IF n = 0 THEN [rest |-> s, frames |-> <<>>]
            ELSE LET so == cut[n - 1]
                     e == FindEvent(so.rest)
                 IN  IF e = <<>> THEN so
                     ELSE [rest |-> SubSeq(so.rest, e[1] + Len(e[2]), Len(so.rest)),
                           frames |-> so.frames \o ParseEvent(SubSeq(so.rest, 1, e[1] - 1))]
    IN  cut[Len(s)]

-----------------------------------------------------------------------------
(* The usage. *)

\* applyUsageJSON: a lone count of cache writes goes to the 5-minute column.
ApplyUsage(u, m, output) ==
    [u EXCEPT !.input = m.input, !.read = m.read,
              !.output = IF output > 0 THEN output ELSE u.output,
              !.w5 = IF m.split = 1 THEN m.w5 ELSE IF m.flat > 0 THEN m.flat ELSE u.w5,
              !.w1 = IF m.split = 1 THEN m.w1 ELSE u.w1,
              !.unsplit = u.unsplit \/ (m.split = 0 /\ m.flat > 0)]

\* A frame whose data is not what its type says leaves the usage as it is.
FoldFrame(u, f) ==
    LET m == message
        line == f.data[1]
        says(type) == f.type = type /\ Len(f.data) = 1 /\ line # Torn
    IN  IF says("message_start") THEN ApplyUsage(u, m, m.first)
        ELSE IF says("message_delta") THEN
            [u EXCEPT !.output = m.outputs[IF line = "delta1" THEN 1 ELSE 2],
                      !.thinking = m.thinking,
                      !.stop = IF line = "delta2" THEN m.stop ELSE u.stop]
        ELSE IF says("message") THEN
            [ApplyUsage(u, m, m.outputs[2]) EXCEPT !.thinking = m.thinking, !.stop = m.stop]
        ELSE u

UsageFromFrames(fs) ==
    LET folded[i \in 0..Len(fs)] ==
            IF i = 0 THEN NoUsage ELSE FoldFrame(folded[i - 1], fs[i])
    IN  folded[Len(fs)]

-----------------------------------------------------------------------------
EventText(lines, ending) == FlattenSeq([i \in 1..Len(lines) |-> <<lines[i]>> \o ending]) \o ending

Text(s, ending) == FlattenSeq([i \in 1..Len(s) |-> EventText(s[i], ending)])

\* A captured body: a stream under one of the three line endings, of which the
\* last blank line may be cut off, or the message as one JSON object.
StreamInit ==
    /\ message \in Messages /\ content \in {"stream", "json", "other"}
    /\ script \in Scripts
    /\ IF content = "stream"
       THEN \E e \in Endings, cut \in 0..4 :
            LET t == Text(script, e)
            IN  cut <= Len(t) /\ cut <= 2 * Len(e) /\ wire = SubSeq(t, 1, Len(t) - cut)
       ELSE script = <<>> /\ wire = <<"body">>
    /\ buf = <<>> /\ frames = <<>> /\ sawStop = FALSE /\ usage = NoUsage

\* Feed, with the next chunk.
Feed ==
    /\ content = "stream"
    /\ \E n \in 1..Len(wire) :
        LET d == Drained(buf \o SubSeq(wire, 1, n))
        IN  /\ wire' = SubSeq(wire, n + 1, Len(wire))
            /\ buf' = d.rest /\ frames' = frames \o d.frames
            /\ sawStop' = (sawStop \/ \E f \in ToSet(d.frames) : f.type = "message_stop")
    /\ UNCHANGED <<message, script, content, usage>>

\* Finish takes what is left as an event of its own, and the frames are folded.
Finish ==
    /\ content = "stream" /\ wire = <<>> /\ buf # <<"end">>
    /\ LET last == ParseEvent(buf)
       IN  /\ frames' = frames \o last
           /\ sawStop' = (sawStop \/ \E f \in ToSet(last) : f.type = "message_stop")
           /\ usage' = UsageFromFrames(frames \o last)
    /\ buf' = <<"end">>
    /\ UNCHANGED <<message, script, content, wire>>

\* ExtractUsage of a body that is no stream; one of an unknown type has none.
ExtractUsage ==
    /\ content # "stream" /\ wire = <<"body">>
    /\ frames' = IF content = "json" THEN <<[type |-> "message", data |-> wire]>> ELSE <<>>
    /\ usage' = UsageFromFrames(frames')
    /\ wire' = <<>> /\ buf' = <<"end">>
    /\ UNCHANGED <<message, script, content, sawStop>>

StreamNext == Feed \/ Finish \/ ExtractUsage

StreamSpec == StreamInit /\ [][StreamNext]_streamVars
-----------------------------------------------------------------------------
StreamTypeOK ==
    /\ buf \in Seq(Lines \cup {CR, LF, "end"})
    /\ \A f \in ToSet(frames) : f.data # <<>>

\* Wherever the chunks fall and whichever of the three endings its lines have,
\* a stream gives one frame for each event with data, is complete if and only
\* if its message_stop arrived (its name and some of its data are enough), and
\* costs what the message says as far as it came: the last running total ("the
\* last value seen wins; summing across deltas is the classic bug",
\* usage.go:42-43), and every token of the prompt in exactly one column.  The
\* same message sent as one object costs the same.
Arrived == UNION {ToSet(script[i]) : i \in 1..Len(script)}

StopArrived ==
    \E i \in 1..Len(script) : /\ ToSet(script[i]) \cap {"stop", "named stop"} # {}
                              /\ ToSet(script[i]) \cap Data # {}

Counts ==
    {message.first : x \in Arrived \cap {"start"}}
    \cup {message.outputs[i] : i \in {j \in 1..2 : Deltas[j] \in Arrived}}

Prompt == message.input + message.read + message.flat

StreamIsReadRight ==
    buf = <<"end">> =>
        CASE content = "stream" ->
                /\ frames = FlattenSeq([i \in 1..Len(script) |-> ParseEvent(script[i])])
                /\ sawStop <=> StopArrived
                /\ usage.output = Max({0} \cup Counts)
                /\ usage.input + usage.read + usage.w5 + usage.w1 =
                      IF "start" \in Arrived THEN Prompt ELSE 0
          [] content = "json" ->
                /\ usage.input + usage.read + usage.w5 + usage.w1 = Prompt
                /\ usage.output = Max({message.first, message.outputs[1], message.outputs[2]})
                /\ usage = UsageFromFrames([i \in 1..3 |->
                       LET line == <<"start", "delta1", "delta2">>[i]
                       IN  [type |-> TypeOf[line], data |-> <<line>>]])
          [] content = "other" -> usage = NoUsage
=============================================================================
