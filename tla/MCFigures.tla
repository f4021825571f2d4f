------------------------------ MODULE MCFigures ------------------------------
(* Small instances, for TLC, of what decides a row and its figures: how a    *)
(* body is read, which row and session a call goes to, how two rows of one   *)
(* call merge, what re-keying makes of rows, what the rules find, which price *)
(* table is in force.  One run explores them as a sum: a behaviour works in   *)
(* one part and leaves the other parts as they start.                         *)
EXTENDS EventMerge, SessionRules, StreamParse, CallIdentity, RekeyPasses,
        PriceFile

VARIABLE part

-----------------------------------------------------------------------------
(* The calls of a session. *)

Plain == [marks |-> 0, prefix |-> "enough", thinking |-> "off", thought |-> FALSE,
          blocks |-> FALSE, blames |-> FALSE, failed |-> FALSE, encoded |-> FALSE,
          status |-> 200, stop |-> "end_turn", stream |-> TRUE, whole |-> TRUE,
          auth |-> "oauth", messages |-> TRUE, mode |-> "subscription", priced |-> TRUE,
          input |-> 1, w5 |-> 0, w1 |-> 0, read |-> 0,
          tools |-> "a", hash |-> "h", lasts |-> 0]

Writing == [Plain EXCEPT !.marks = 5, !.w5 = 1, !.lasts = 2, !.stop = "max_tokens",
                         !.thinking = "on", !.thought = TRUE]
Keeping == [Plain EXCEPT !.w1 = 1, !.tools = "b", !.whole = FALSE,
                         !.thinking = "on", !.thought = TRUE, !.blocks = TRUE,
                         !.encoded = TRUE]
Unmet   == [Plain EXCEPT !.marks = 1, !.prefix = "below", !.auth = "api_key"]
Limited == [Plain EXCEPT !.input = 0, !.status = 429, !.stream = FALSE, !.priced = FALSE]
Line    == [Plain EXCEPT !.read = 1, !.tools = "none", !.hash = "none",
                         !.status = 0, !.auth = "", !.stream = FALSE]

StartedAt(c, times) == {[at |-> t] @@ c : t \in times}

MCOffered == StartedAt(Writing, {0, 1}) \cup StartedAt(Keeping, {0, 3})
    \cup StartedAt(Line, {1, 3}) \cup StartedAt(Limited, {1}) \cup StartedAt(Unmet, {1})

-----------------------------------------------------------------------------
(* A stream of six events that any subset may be missing from, or that stops  *)
(* short in a line or between two lines.                                      *)

MCMessages ==
    {[input |-> 1, read |-> 2, split |-> 1, w5 |-> 3, w1 |-> 4, flat |-> 7, first |-> 1,
      outputs |-> <<5, 9>>, thinking |-> 2, stop |-> "end_turn"],
     [input |-> 1, read |-> 0, split |-> 0, w5 |-> 0, w1 |-> 0, flat |-> 7, first |-> 0,
      outputs |-> <<0, 3>>, thinking |-> 0, stop |-> "refusal"]}

Events == <<<<"named start", "start">>, <<"ping">>, <<"delta1">>,
            <<"named delta", "delta2">>, <<"named stop", "stop">>, <<"done">>>>

Only(K) == SelectSeq(Events, LAMBDA e : e \in K)

MCScripts ==
    LET all == ToSet(Events)
        open == {<<"named start", "start">>, <<"ping">>, <<"delta1">>}
    IN  {Only(K) : K \in {J \in SUBSET all : <<"ping">> \in J => <<"done">> \notin J}}
        \cup {Append(Only(K), e) : K \in SUBSET open,
                  e \in {<<Torn>>, <<"named delta", Torn>>, <<"named stop", Torn>>, <<"named stop">>}}

-----------------------------------------------------------------------------
\* Requests: two of one prompt without an upstream name and with one, one cut,
\* one with both headers, and two whose override is too long.
MCRequest(o, w, b, h, m) ==
    [override |-> o, own |-> w, body |-> b, header |-> h, message |-> m]
MCRequests == {MCRequest("", "", "p", "", ""), MCRequest("", "", "p", "r1", ""),
               MCRequest("", "", "", "", "m1"), MCRequest("op", "cc", "p", "", "m1"),
               MCRequest("xx", "cc", "q", "", ""), MCRequest("xx", "", "q", "", "")}

-----------------------------------------------------------------------------
\* Two captures of one answer, in two sessions and with a finding each, and a
\* replay of the first that was not answered; its transcript has the answer.
Old1(id, header, session, of, kinds) ==
    [id |-> id, header |-> header, session |-> session, of |-> of, kinds |-> kinds]

MCOld == ("a" :> Old1("m1", "c1", "s1", "", {"w"})) @@ ("b" :> Old1("m1", "", "s2", "", {"v"}))
         @@ ("r" :> Old1("", "c2", "s1", "a", {}))

MCSpoken == ("m1" :> "c1")

-----------------------------------------------------------------------------
(* A model billed for writes that has a fast mode, and one without, whose       *)
(* provider bills no writes and has a peak.                                     *)

Rate(input, output, w5, w1, read) ==
    [c \in Columns |-> CASE c = "input" -> input [] c = "output" -> output
                         [] c = "w5" -> w5 [] c = "w1" -> w1 [] c = "read" -> read
                         [] OTHER -> None]

MCShipped == ("claude" :> [Rate(8, 40, 10, 16, 1) EXCEPT !["fastIn"] = 16, !["fastOut"] = 80])
             @@ ("flash" :> Rate(8, 16, 0, 0, 1))

Set(model, column, rate) == [kind |-> "set", model |-> model, column |-> column, rate |-> rate]

MCJobs == {Set("claude", "input", 16), Set("flash", "input", 16), Set("new", "input", 16),
           Set("claude", "w5", 8), Set("claude", "fastIn", 24), Set("flash", "fastIn", 24),
           [kind |-> "post", model |-> "flash", row |-> Rate(8, None, None, None, None)],
           [kind |-> "post", model |-> "claude", row |-> Rate(24, 40, None, None, None)],
           [kind |-> "unset", model |-> "claude"], [kind |-> "edit"]}

\* The editors are alike, and so are the goroutines.
Interchangeable == Permutations(Editors) \cup Permutations(Readers)

-----------------------------------------------------------------------------
\* The parts a behaviour does not work in start in one fixed state.
AtRest ==
    /\ part # "stream" => content = "other" /\ message = CHOOSE m \in Messages : TRUE
    /\ part # "rekey" => unsaid = DOMAIN Spoken

AllInit ==
    /\ part \in {"merge", "rules", "stream", "identity", "rekey", "prices"}
    /\ Init /\ RulesInit /\ StreamInit /\ IdentityInit /\ RekeyInit /\ PriceInit
    /\ AtRest

AllNext ==
    /\ UNCHANGED part
    /\ \/ part = "merge" /\ Next
          /\ UNCHANGED <<rulesVars, streamVars, identityVars, rekeyVars, priceVars>>
       \/ part = "rules" /\ RulesNext
          /\ UNCHANGED <<vars, streamVars, identityVars, rekeyVars, priceVars>>
       \/ part = "stream" /\ StreamNext
          /\ UNCHANGED <<vars, rulesVars, identityVars, rekeyVars, priceVars>>
       \/ part = "identity" /\ IdentityNext
          /\ UNCHANGED <<vars, rulesVars, streamVars, rekeyVars, priceVars>>
       \/ part = "rekey" /\ RekeyNext
          /\ UNCHANGED <<vars, rulesVars, streamVars, identityVars, priceVars>>
       \/ part = "prices" /\ PriceNext
          /\ UNCHANGED <<vars, rulesVars, streamVars, identityVars, rekeyVars>>

allVars == <<part, vars, rulesVars, streamVars, identityVars, rekeyVars, priceVars>>

AllSpec == AllInit /\ [][AllNext]_allVars
=============================================================================
