---------------------------- MODULE BackendQuery ----------------------------
(***************************************************************************)
(* The query behind a withdrawal that is blocked: BackendQueryService and  *)
(* TacBackendClient look a player up under two search codes, read the      *)
(* turnover records of five windows, and turn the answers into what the    *)
(* customer is told.  The session with the backend may end between any two *)
(* calls.  Who asks, and what becomes of the result, is module             *)
(* Conversation.                                                           *)
(*                                                                         *)
(* Operators named X_Variant are plausible bugs of X; nothing uses them.   *)
(***************************************************************************)
EXTENDS Naturals, Sequences

CONSTANTS
    Records,      \* turnover records: [status, remaining]
    MaxEnded      \* bound: how often the backend ends the session

\* build_turnover_requirement_queries: recent, month, last withdrawal, recent by
\* withdrawal, lookback.
Windows == 1 .. 5

Statuses == {"incomplete", "complete", "other", "blank"}
Players == {"found", "without_id", "none"}
SearchCodes == {"USERNAME", "MOBILE"}
Settings == [intent : {"withdrawal_blocked_or_rollover", "other"}, account : BOOLEAN,
             enabled : BOOLEAN, group : {"missing", "mapped", "unmapped"},
             platform : {"missing", "same", "other"}, provider : {"missing", "tac", "other"},
             login : BOOLEAN]
Sessions == {"none", "valid", "ended"}
Conclusions == {"BACKEND_PLAYER_NOT_FOUND", "BACKEND_TURNOVER_REMAINING", "BACKEND_TURNOVER_MET"}
Failures == {"FAILED_UNSUPPORTED_INTENT", "FAILED_BUSINESS", "FAILED_CONFIG",
             "FAILED_UNSUPPORTED_PROVIDER", "FAILED_BACKEND_QUERY"}
NoReply == "no_reply"

VARIABLES
    settings,  \* of the program, and the command: intent, account or phone, group, platform
    session,   \* self.authorization of the client of this query
    call,      \* the next call
    window,    \* its window, if it reads turnover records
    again,     \* the call is being repeated after INVALID_TOKEN
    reply,
    ended,
    found,     \* history: what the backend answered under each search code
    pages,     \* history: the pages it answered, in order
    refusals   \* history: calls that were refused twice

vars == <<settings, session, call, window, again, reply, ended, found, pages, refusals>>
history == <<found, pages, refusals>>

TypeOK ==
    /\ settings \in Settings /\ session \in Sessions
    /\ call \in SearchCodes \cup {"start", "WINDOW", "done"} /\ window \in Windows
    /\ again \in BOOLEAN /\ reply \in Conclusions \cup Failures \cup {NoReply}
    /\ ended \in 0 .. MaxEnded
    /\ found \in [SearchCodes -> Players \cup {"unknown"}]
    /\ pages \in Seq(SUBSET Records) /\ Len(pages) \in 0 .. 5
    /\ refusals \in 0 .. 7

\* is_incomplete_turnover_status, or no status and something left.
normalize_turnover_requirement_record(r) ==
    r.status = "incomplete" \/ (r.status = "blank" /\ r.remaining > 0)

\* summarize_turnover_requirement: the requirements that are not met.
Active(records) == {r \in records : normalize_turnover_requirement_record(r)}

\* TenantBackendConfigResolver.resolve for a command of LiveChat: its group names the
\* merchant, and a platform it also has must be that group's.
resolve ==
    /\ settings.enabled /\ settings.group = "mapped" /\ settings.platform # "other"
    /\ settings.provider # "missing" /\ (settings.login \/ session # "none")

Init ==
    /\ settings \in Settings
    /\ session \in Sessions   \* config.authorization may be absent, good or expired
    /\ call = "start" /\ window = 1 /\ again = FALSE /\ reply = NoReply /\ ended = 0
    /\ found = [c \in SearchCodes |-> "unknown"] /\ pages = <<>> /\ refusals = 0

Reply(text) == reply' = text /\ call' = "done" /\ UNCHANGED window

\* What is wrong with the command, which execute looks at before the settings.
CommandError ==
    IF settings.intent = "other" THEN "FAILED_UNSUPPORTED_INTENT"
    ELSE IF ~settings.account THEN "FAILED_BUSINESS" ELSE NoReply

\* execute: after the command the settings are resolved and a new client is made.
Execute ==
    /\ call = "start"
    /\ CASE CommandError # NoReply -> Reply(CommandError)
         [] CommandError = NoReply /\ ~resolve -> Reply("FAILED_CONFIG")
         [] CommandError = NoReply /\ resolve /\ settings.provider = "other"
              -> Reply("FAILED_UNSUPPORTED_PROVIDER")
         [] OTHER -> call' = "USERNAME" /\ UNCHANGED <<reply, window>>
    /\ UNCHANGED <<settings, session, again, ended, history>>

Calling == call \notin {"start", "done"}

\* login: by one-time code or password, before the first call if there is no token and
\* after INVALID_TOKEN.  Without credentials, without a token in the answer, or on an
\* error of the transport, it raises; execute catches it.
Login ==
    /\ Calling /\ session = "none"
    /\ \/ settings.login /\ session' = "valid" /\ UNCHANGED <<call, window, reply>>
       \/ Reply("FAILED_BACKEND_QUERY") /\ UNCHANGED session
    /\ UNCHANGED <<settings, again, ended, history>>

\* The token expires, or another login replaces it.
SessionEnds ==
    /\ Calling /\ session = "valid" /\ ended < MaxEnded
    /\ session' = "ended" /\ ended' = ended + 1
    /\ UNCHANGED <<settings, call, window, again, reply, history>>

\* api_get: the first INVALID_TOKEN of a call is answered with a login and a repetition.
Relogin ==
    /\ Calling /\ session = "ended" /\ ~again
    /\ session' = "none" /\ again' = TRUE
    /\ UNCHANGED <<settings, call, window, reply, ended, history>>

\* query_player_user that searches on until somebody is found.
SearchAnswer_Variant(player) ==
    CASE player = "found" -> call' = "WINDOW" /\ UNCHANGED <<window, reply>>
      [] player = "none" -> call' \in SearchCodes \ {call} /\ UNCHANGED <<window, reply>>
      [] OTHER -> Reply("BACKEND_PLAYER_NOT_FOUND")

\* query_player_user: the username first, then the mobile number.  A row without an id
\* ends the search, and the player is not found.
SearchAnswer(player) ==
    CASE player = "found" -> call' = "WINDOW" /\ UNCHANGED <<window, reply>>
      [] player = "none" /\ call = "USERNAME" -> call' = "MOBILE" /\ UNCHANGED <<window, reply>>
      [] OTHER -> Reply("BACKEND_PLAYER_NOT_FOUND")

\* query_turnover_requirement that concludes from the first window.
WindowAnswer_Variant(records) ==
    IF Active(records) # {} THEN Reply("BACKEND_TURNOVER_REMAINING") ELSE Reply("BACKEND_TURNOVER_MET")

\* query_turnover_requirement: the first window with an active requirement decides; if
\* there is none in all five, the requirement is met (build_withdrawal_blocked_reply).
WindowAnswer(records) ==
    CASE Active(records) # {} -> Reply("BACKEND_TURNOVER_REMAINING")
      [] Active(records) = {} /\ window < 5 -> window' = window + 1 /\ UNCHANGED <<call, reply>>
      [] OTHER -> Reply("BACKEND_TURNOVER_MET")

\* _api_get_once returns data: a player or a first page of at most 20 records.
Answered ==
    /\ Calling /\ session = "valid"
    /\ \/ \E player \in Players :
            /\ call \in SearchCodes
            /\ SearchAnswer(player) /\ found' = [found EXCEPT ![call] = player]
            /\ UNCHANGED pages
       \/ \E records \in SUBSET Records :
            /\ call = "WINDOW"
            /\ WindowAnswer(records) /\ pages' = Append(pages, records)
            /\ UNCHANGED found
    /\ again' = FALSE
    /\ UNCHANGED <<settings, session, ended, refusals>>

\* The transport raises, or assert_backend_success does for success = false; execute
\* catches both.
Fails ==
    /\ Calling /\ session # "none"
    /\ Reply("FAILED_BACKEND_QUERY")
    /\ UNCHANGED <<settings, session, again, ended, history>>

\* A second INVALID_TOKEN is returned as it is.  The answer has an errorCode and no
\* success field: assert_backend_success lets it pass and extract_rows finds no rows.
RefusedTwice ==
    /\ Calling /\ session = "ended" /\ again
    /\ IF call \in SearchCodes THEN SearchAnswer("none") ELSE WindowAnswer({})
    /\ again' = FALSE /\ refusals' = refusals + 1
    /\ UNCHANGED <<settings, session, ended, found, pages>>

QueryStep == Execute \/ Login \/ Relogin \/ Answered \/ Fails \/ RefusedTwice

Next == QueryStep \/ SessionEnds

Spec == Init /\ [][Next]_vars

\* Every call has a timeout: it is answered or it fails.
Fairness == WF_vars(QueryStep)

LiveSpec == Spec /\ Fairness
----------------------------------------------------------------------------
\* What the customer is told follows from the answers of the backend: a requirement is
\* met only after all five windows, remaining only if the last page read shows it, and
\* a player is unknown only if the last search asked has no player with an id.  (A
\* search or a window that was refused twice counts as asked: assert_backend_success
\* lets such an answer pass.)
ConclusionsFollow ==
    /\ reply = "BACKEND_TURNOVER_MET" =>
          /\ Len(pages) + refusals >= 5
          /\ \A i \in DOMAIN pages : Active(pages[i]) = {}
          /\ \E c \in SearchCodes : found[c] = "found"
    /\ reply = "BACKEND_TURNOVER_REMAINING" => Active(pages[Len(pages)]) # {}
    /\ reply = "BACKEND_PLAYER_NOT_FOUND" =>
          /\ "found" \notin {found[c] : c \in SearchCodes}
          /\ \/ "without_id" \in {found[c] : c \in SearchCodes}
             \/ refusals = 2
             \/ refusals = 1 /\ "none" \in {found[c] : c \in SearchCodes}
             \/ \A c \in SearchCodes : found[c] = "none"

\* Every query comes to an end, with a conclusion or a failure, however often the
\* session ends: the worker that runs it is free for the next command.
ReplyFollows == <>(reply # NoReply)
=============================================================================
