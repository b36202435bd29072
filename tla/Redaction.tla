----------------------------- MODULE Redaction -----------------------------
(***************************************************************************)
(* How the task service keeps its configured tokens out of what it emits   *)
(* (taskservice/api.py): the MCP responses, redacted chunk by chunk as the *)
(* application streams them, and the log records of the whole process,     *)
(* redacted by a replacement of Logger.handle that the lifespans of the    *)
(* authenticated applications install and remove while other threads log.  *)
(*                                                                         *)
(* A response is a sequence of letters, a token a short word over them, so *)
(* that tokens overlap and prefix one another as bytes do; the marker is   *)
(* one letter of its own. A log record is the lifespan whose token it      *)
(* holds: where in the record the token stands does not matter, the filter *)
(* goes through every field.                                               *)
(***************************************************************************)
EXTENDS Naturals, Sequences, SequencesExt, FiniteSetsExt

CONSTANTS Nil, Tokens, Letters, MaxText, Lifespans, Threads, MaxRuns

Marker == "[redacted]"

VARIABLES
    body,      \* the response the application produces
    sent,      \* how much of it has gone through the redactor
    pending,   \* what the redactor keeps back
    out,       \* what the client has received
    filters,   \* _active_log_redaction_filters: the lifespans under way
    handle,    \* Logger.handle
    original,  \* _original_logger_handle
    caller,    \* the threads that log
    leaked,    \* history: a token of a running lifespan was logged
    runs       \* lifespans begun

streamVars == <<body, sent, pending, out>>
logVars == <<filters, handle, original, caller, leaked, runs>>
redactionVars == <<streamVars, logVars>>

Resting == [pc |-> "idle", secret |-> Nil, found |-> Nil, since |-> {}, tokens |-> {}, next |-> Nil]

TypeOK ==
    /\ sent \in 0 .. Len(body)
    /\ Len(pending) <= MaxText
    /\ Range(out) \subseteq Letters \cup {Marker}
    /\ Range(pending) \subseteq Letters
    /\ filters \subseteq Lifespans
    /\ handle \in {"pristine", "redacting"}
    /\ original \in {Nil, "pristine"}
    /\ \A t \in Threads :
         /\ caller[t].pc \in {"idle", "resolved", "read"}
         /\ caller[t].next \in {Nil, "pristine"}
    /\ leaked \in BOOLEAN /\ runs \in 0 .. MaxRuns

Init ==
    /\ body \in UNION {[1 .. n -> Letters] : n \in 1 .. MaxText}
    /\ sent = 0 /\ pending = <<>> /\ out = <<>>
    /\ filters = {} /\ handle = "pristine" /\ original = Nil
    /\ caller = [t \in Threads |-> Resting] /\ leaked = FALSE /\ runs = 0

-----------------------------------------------------------------------------
(* The stream.                                                             *)

\* The tokens that stand at position i of a text: the longest one is taken.
At(text, i) == {token \in Tokens : IsPrefix(token, SubSeq(text, i, Len(text)))}
Longest(text, i) == Max({Len(token) : token \in At(text, i)})

\* The longest end of the data that may be the beginning of a token.
HeldBack(data) ==
    Max({0} \cup {n \in 1 .. Len(data) :
          \E token \in Tokens : n < Len(token) /\ IsSuffix(SubSeq(token, 1, n), data)})

\* A chunk: matches that begin before the part held back are replaced, the
\* last one may reach into it; what follows the last letter consumed waits.
_redact_stream_chunk(text, more) ==
    LET data == pending \o text
        safe == Len(data) - (IF more THEN HeldBack(data) ELSE 0)
        scan[i \in 1 .. Len(data) + 1] ==
            IF i > safe THEN [output |-> <<>>, rest |-> SubSeq(data, i, Len(data))]
            ELSE LET hit == At(data, i) # {}
                     after == scan[i + IF hit THEN Longest(data, i) ELSE 1]
                 IN [after EXCEPT !.output = <<IF hit THEN Marker ELSE data[i]>> \o @]
    IN scan[1]

\* The application sends its next bytes; the last message says so. The
\* content-length header is dropped, since the marker changes the length.
send_redacted ==
    /\ sent < Len(body)
    /\ \E n \in sent + 1 .. Len(body) :
         LET chunk == _redact_stream_chunk(SubSeq(body, sent + 1, n), n < Len(body))
         IN /\ out' = out \o chunk.output
            /\ pending' = chunk.rest
            /\ sent' = n
    /\ UNCHANGED <<body, logVars>>

-----------------------------------------------------------------------------
(* The log. `logging` looks Logger.handle up and calls what it found.      *)

_install_log_redaction(l) ==
    /\ l \notin filters /\ runs < MaxRuns
    /\ IF filters = {}
       THEN original' = handle /\ handle' = "redacting"
       ELSE UNCHANGED <<original, handle>>
    /\ filters' = filters \cup {l}
    /\ runs' = runs + 1
    /\ UNCHANGED <<streamVars, caller, leaked>>

\* A removal that undoes the replacement whoever else needs it.
RestoreAtOnce(l) ==
    /\ l \in filters
    /\ filters' = filters \ {l}
    /\ handle' = "pristine" /\ original' = Nil
    /\ UNCHANGED <<streamVars, caller, leaked, runs>>

_remove_log_redaction(l) ==
    /\ l \in filters
    /\ filters' = filters \ {l}
    /\ IF filters' = {}
       THEN handle' = original /\ original' = Nil
       ELSE UNCHANGED <<handle, original>>
    /\ UNCHANGED <<streamVars, caller, leaked, runs>>

\* A thread logs a record that holds the token of lifespan s.
Log(t, s) ==
    /\ caller[t].pc = "idle"
    /\ caller' = [caller EXCEPT ![t] = [Resting EXCEPT !.pc = "resolved", !.secret = s,
                                                       !.found = handle, !.since = filters]]
    /\ UNCHANGED <<streamVars, filters, handle, original, leaked, runs>>

\* Under the lock: the tokens of every lifespan under way and the method to
\* go on with, the pristine one when the last lifespan has just ended.
_redacting_logger_handle(t) ==
    /\ caller[t].pc = "resolved" /\ caller[t].found = "redacting"
    /\ caller' = [caller EXCEPT ![t].pc = "read", ![t].tokens = filters,
                    ![t].since = @ \cap filters,
                    ![t].next = IF original = Nil THEN "pristine" ELSE original]
    /\ UNCHANGED <<streamVars, filters, handle, original, leaked, runs>>

_redact_log_value(secret, tokens) == IF secret \in tokens THEN Nil ELSE secret
_ConfiguredTokenLogFilter(t) == _redact_log_value(caller[t].secret, caller[t].tokens)

\* The filter rewrites the record, then the method writes it.
Emit(t) ==
    /\ \/ caller[t].pc = "read"
       \/ caller[t].pc = "resolved" /\ caller[t].found = "pristine"
    /\ leaked' = (leaked \/ _ConfiguredTokenLogFilter(t) \in caller[t].since)
    /\ caller' = [caller EXCEPT ![t] = Resting]
    /\ UNCHANGED <<streamVars, filters, handle, original, runs>>

\* An application's lifespan installs the redactor and removes it at its end.
lifespan(l) == _install_log_redaction(l) \/ _remove_log_redaction(l)

LogNext ==
    \/ \E l \in Lifespans : lifespan(l)
    \/ \E t \in Threads :
         (\E s \in Lifespans : Log(t, s)) \/ _redacting_logger_handle(t) \/ Emit(t)

Next == send_redacted \/ LogNext

Spec == Init /\ [][Next]_redactionVars

-----------------------------------------------------------------------------
(* Properties.                                                             *)

\* What redacting the whole text at once gives: from the left, the longest
\* token wins.
Redacted(text) ==
    LET from[i \in 1 .. Len(text) + 1] ==
            IF i > Len(text) THEN <<>>
            ELSE IF At(text, i) # {} THEN <<Marker>> \o from[i + Longest(text, i)]
            ELSE <<text[i]>> \o from[i + 1]
    IN from[1]

\* However the response is cut into chunks, the client has read a beginning
\* of the redacted response at any time, and all of it at the end: no token
\* gets through in pieces (REQ-047.1.1).
ChunksDoNotMatter ==
    /\ IsPrefix(out, Redacted(body))
    /\ sent = Len(body) => out = Redacted(body)

\* Nothing is kept back but a piece of what may still become a token: an
\* event that ends in a letter no token continues with has been delivered
\* (REQ-047.1.2).
KeptBackIsPrefix ==
    pending # <<>> => \E token \in Tokens : \E n \in 1 .. Len(token) - 1 :
                         IsSuffix(pending, SubSeq(token, 1, n))

\* The token of a lifespan that was under way when the record was logged and
\* still is when it is filtered is never written, whichever other lifespans
\* begin and end meanwhile (REQ-047.3.2 and 3).
RunningTokensAreHidden == ~ leaked

\* A thread that found the replacement just before it was taken away still
\* has a method to call: a shutdown never fails somebody's log call.
EveryCallContinues == \A t \in Threads : caller[t].pc = "read" => caller[t].next # Nil

\* Without a lifespan the process logs as if there had never been one
\* (REQ-047.3.1), and the replacement never wraps itself.
HandleIsRestored ==
    /\ filters = {} => handle = "pristine" /\ original = Nil
    /\ filters # {} => handle = "redacting" /\ original = "pristine"

\* No token gets out, by a response or by the log, and nothing else is lost for it.
TokensStayIn ==
    /\ TypeOK
    /\ ChunksDoNotMatter /\ KeptBackIsPrefix
    /\ RunningTokensAreHidden /\ EveryCallContinues /\ HandleIsRestored
=============================================================================
