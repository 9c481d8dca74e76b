----------------------------- MODULE Assistant -----------------------------
(***************************************************************************)
(* Aasthi AI: the chat panel of a visitor, the /api/ai/chat handler of one *)
(* instance with its rate limit, the records looked up on the rail for the *)
(* question, and the models tried in their order.  Wording is left out; a  *)
(* message is its role and whether it is longer than a message may be.     *)
(***************************************************************************)
EXTENDS Naturals, Sequences, SequencesExt, FiniteSets

CONSTANTS
    Callers,            \* panels, each with a budget of its own
    MODELS,             \* the configured models, in order
    maxMessages,        \* of a conversation
    requestsPerWindow, windowMs,
    MaxTime, MaxAsked

VARIABLES
    thread,             \* panel -> its messages: [role, tone, long]
    chat,               \* panel -> the request it waits for
    hits,               \* panel -> times of the requests let through
    now,
    gone,               \* models Groq has retired
    exists,             \* the record asked about is on the rail
    paid,               \* panel -> times the models were asked for it (history)
    replies             \* replies shown: how they came about (history)

assistantVars == <<thread, chat, hits, now, gone, exists, paid, replies>>

Idle == [pc |-> "idle"]
AssistantInit ==
    /\ thread = [c \in Callers |-> <<>>] /\ chat = [c \in Callers |-> Idle]
    /\ hits = [c \in Callers |-> <<>>] /\ now = windowMs /\ gone = {} /\ exists = FALSE
    /\ paid = [c \in Callers |-> <<>>] /\ replies = {}

busy(c) == chat[c].pc # "idle"
Goes(c, r) == chat' = [chat EXCEPT ![c] = r]
Says(c, role, tone, long) == thread' = [thread EXCEPT ![c] = Append(@, [role |-> role, tone |-> tone, long |-> long])]
Shows(c, error) == Says(c, "assistant", error, FALSE) /\ Goes(c, Idle)

\* Only what was said goes back to the server, not the panel's own errors; a
\* question the server refused was said.
history(c) == SelectSeq(thread[c], LAMBDA m : m.tone = "")
send(c) ==
    /\ ~busy(c) /\ Len(SelectSeq(thread[c], LAMBDA m : m.role = "user")) < MaxAsked
    /\ Says(c, "user", "", FALSE)
    /\ Goes(c, [pc |-> "sent", messages |-> Append(history(c), [role |-> "user", tone |-> "", long |-> FALSE])])
    /\ UNCHANGED <<hits, now, gone, exists, paid, replies>>

validateChatRequest(messages) ==
    Len(messages) <= maxMessages /\ (\A i \in DOMAIN messages : ~messages[i].long) /\ Last(messages).role = "user"

Recent_Kept(c) == SelectSeq(hits[c], LAMBDA t : t > now - 1) \* (mutant: the window is a tick)
Recent(c) == SelectSeq(hits[c], LAMBDA t : t > now - windowMs)
rateLimit(c) == Len(Recent(c)) >= requestsPerWindow

\* A request is judged, counted and then waits for what the rail says.
Refuse(c) ==
    /\ chat[c].pc = "sent" /\ UNCHANGED <<now, gone, exists, paid, replies>>
    /\ \/ ~validateChatRequest(chat[c].messages) /\ Shows(c, "ERR_BAD_REQUEST") /\ UNCHANGED hits
       \/ /\ validateChatRequest(chat[c].messages) /\ rateLimit(c) /\ Shows(c, "ERR_RATE_LIMITED")
          /\ hits' = [hits EXCEPT ![c] = Recent(c)]
Admit(c) ==
    /\ chat[c].pc = "sent" /\ validateChatRequest(chat[c].messages) /\ ~rateLimit(c)
    /\ hits' = [hits EXCEPT ![c] = Append(Recent(c), now)]
    /\ Goes(c, [pc |-> "lookup", asked |-> exists, at |-> now]) /\ UNCHANGED <<thread, now, gone, exists, paid, replies>>

\* The record named in the question, if the rail answers in time; a read that
\* failed and a record that is not there come out the same.
Found_Assumed(read) == TRUE \* (mutant: the reference is described as it was named)
Found(read) == read = "found"
lookupRecords(c, read) ==
    /\ chat[c].pc = "lookup" /\ read \in {IF exists THEN "found" ELSE "404", "lost"}
    /\ Goes(c, [pc |-> "asking", model |-> 1, attempt |-> 0, record |-> Found(read), asked |-> exists,
                passed |-> {}, failed |-> {}])
    /\ paid' = [paid EXCEPT ![c] = Append(@, chat[c].at)] /\ UNCHANGED <<thread, hits, now, gone, exists, replies>>

----------------------------------------------------------------------------
worthRetrying(error) == error \in {"outage", "timeout"}
modelIsGone_OrFails(error) == error \in {"gone", "timeout", "busy"} \* (mutant: any trouble tries the next model)
modelIsGone(error) == error = "gone"
\* What Groq answers to one call: a retired model always says so.
Answers(model) == IF model \in gone THEN {"gone"} ELSE {"reply", "long reply", "empty", "outage", "timeout", "busy", "denied", "refused"}
Code(error) ==
    CASE modelIsGone(error) -> "ERR_AI_NO_MODEL" [] error = "denied" -> "ERR_AI_NOT_CONFIGURED" [] error = "busy" -> "ERR_AI_BUSY"
      [] worthRetrying(error) -> "ERR_AI_TIMEOUT" [] error = "empty" -> "ERR_AI_EMPTY" [] OTHER -> "ERR_AI_UPSTREAM"

askGroq(c) ==
    /\ chat[c].pc = "asking" /\ UNCHANGED <<hits, now, gone, exists, paid>>
    /\ \E a \in Answers(MODELS[chat[c].model]) :
        LET k == chat[c]  this == MODELS[k.model] IN
        CASE a \in {"reply", "long reply"} ->
                /\ Says(c, "assistant", "", a = "long reply") /\ Goes(c, Idle)
                /\ replies' = replies \cup {[model |-> this, passed |-> k.passed, failed |-> k.failed, record |-> k.record, existed |-> k.asked]}
          [] worthRetrying(a) /\ k.attempt = 0 -> Goes(c, [k EXCEPT !.attempt = 1]) /\ UNCHANGED <<thread, replies>>
          [] modelIsGone(a) /\ ~(worthRetrying(a) /\ k.attempt = 0) /\ k.model < Len(MODELS) ->
                /\ Goes(c, [k EXCEPT !.model = @ + 1, !.attempt = 0, !.passed = @ \cup {this},
                                     !.failed = IF a = "gone" THEN @ ELSE @ \cup {this}])
                /\ UNCHANGED <<thread, replies>>
          [] OTHER -> Shows(c, Code(a)) /\ UNCHANGED replies

\* The panel loses the server, which goes on by itself.
Cut(c) ==
    /\ busy(c) /\ Shows(c, "unreachable") /\ UNCHANGED <<now, gone, exists, paid, replies>>
    /\ \/ UNCHANGED hits
       \/ /\ chat[c].pc = "sent" /\ validateChatRequest(chat[c].messages) /\ ~rateLimit(c)
          /\ hits' = [hits EXCEPT ![c] = Append(Recent(c), now)]
Retire(m) == m \notin gone /\ gone' = gone \cup {m} /\ UNCHANGED <<thread, chat, hits, now, exists, paid, replies>>
Recorded == ~exists /\ exists' = TRUE /\ UNCHANGED <<thread, chat, hits, now, gone, paid, replies>>
Tick == now < MaxTime /\ now' = now + 1 /\ UNCHANGED <<thread, chat, hits, gone, exists, paid, replies>>

AssistantNext ==
    \/ Recorded \/ Tick \/ \E m \in ToSet(MODELS) : Retire(m)
    \/ \E c \in Callers :
          send(c) \/ Refuse(c) \/ Admit(c) \/ askGroq(c) \/ Cut(c) \/ \E r \in {"found", "404", "lost"} : lookupRecords(c, r)

----------------------------------------------------------------------------
\* No window of time lets a panel through more often than its budget; a model
\* answers only when every model before it has been retired, never in place of
\* one that failed; a record is described only if the rail had it; and no
\* conversation the server would refuse reaches a model.
\* (rateLimit, askGroq, askOnce, lookupRecords, validateChatRequest)
RepliesAreEarned ==
    /\ \A c \in Callers, t \in 0..MaxTime :
        Len(SelectSeq(paid[c], LAMBDA x : x \in (t + 1)..(t + windowMs))) <= requestsPerWindow
    /\ \A r \in replies :
        /\ r.passed \subseteq gone /\ r.failed = {}
        /\ \A i, j \in DOMAIN MODELS : MODELS[i] = r.model /\ j < i => MODELS[j] \in r.passed
        /\ r.record => r.existed
    /\ \A c \in Callers : busy(c) /\ chat[c].pc # "sent" => Len(history(c)) <= maxMessages
=============================================================================
