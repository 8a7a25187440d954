--------------------------- MODULE LivechatMenus ---------------------------
(***************************************************************************)
(* The menus of one conversation: what the gateway and the graph take a    *)
(* click, a digit or a menu word for, the menu context they keep in        *)
(* slot_memory, and the menus that wait in the outbox until the sender     *)
(* shows them.  The context moves when a menu is queued, the customer      *)
(* answers what is on the screen.                                          *)
(*                                                                         *)
(* Languages are data: a label is typed in the language of the row.  What  *)
(* a business button starts is module TurnRouting.                         *)
(*                                                                         *)
(* Operators named X_Variant are plausible bugs of X; nothing uses them.   *)
(***************************************************************************)
EXTENDS Naturals, Sequences, SequencesExt

CONSTANTS
    FaqMenus,   \* menu_key values in the answer blocks of the knowledge base
    MaxInputs   \* bound: inputs of the customer and start events

NoMenu == "none"
NoButton == "no_button"

MainMenu == <<"deposit_menu", "withdrawal_menu", "main_pending_reply", "other_menu">>
DepositMenu == <<"main_deposito", "deposit_howto">>
WithdrawalMenu == <<"main_retiro", "withdrawal_blocked", "withdrawal_howto", "global_human">>
OtherMenu == <<"forgot_password", "global_human">>
RecoveryMenu == <<"route_previous", "route_main", "global_human">>

MENUS == [main |-> MainMenu, deposit |-> DepositMenu,
          withdrawal |-> WithdrawalMenu, other |-> OtherMenu,
          main_recovery |-> RecoveryMenu, deposit_recovery |-> RecoveryMenu,
          withdrawal_recovery |-> RecoveryMenu, other_recovery |-> RecoveryMenu]

MENU_BY_NAV_BUTTON ==
    [deposit_menu |-> "deposit", withdrawal_menu |-> "withdrawal", other_menu |-> "other"]

NavButtons == DOMAIN MENU_BY_NAV_BUTTON \cup {"route_main", "route_previous"}
FaqButtons == {"deposit_howto", "withdrawal_howto", "forgot_password"}

\* get_menu: a key is a menu or the navigation button that opens it.
get_menu(key) ==
    IF key \in DOMAIN MENU_BY_NAV_BUTTON THEN MENU_BY_NAV_BUTTON[key] ELSE key

Buttons == UNION {Range(MENUS[m]) : m \in DOMAIN MENUS}
Contexts == {"main", "deposit", "withdrawal", "other", NoMenu}

VARIABLES
    memory,   \* slot_memory.livechat_menu: context and previous_context
    outbox,   \* menus queued and not sent
    shown,    \* the last menu on the customer's screen
    inbox,    \* events not processed
    human,    \* the conversation is HANDOFF_REQUESTED
    inputs,   \* inputs and start events so far
    patient,  \* history: every input came when the answer to the last was complete
    last      \* history: the last input processed and the button it was taken for

vars == <<memory, outbox, shown, inbox, human, inputs, patient, last>>

Nothing == [kind |-> "none"]
Digit(n) == [kind |-> "digit", n |-> n]
Click(b) == [kind |-> "click", button |-> b]
Label(b) == [kind |-> "label", button |-> b]
Words(b) == [kind |-> "words", button |-> b]
FreeText == [kind |-> "text"]
Start == [kind |-> "start"]

Digits == 1 .. 5

Init ==
    /\ memory = [context |-> NoMenu, previous |-> NoMenu]
    /\ outbox = <<>> /\ inbox = <<>>
    /\ shown = NoMenu
    /\ human = FALSE /\ patient = TRUE
    /\ inputs = 0
    /\ last = [input |-> Nothing, shown |-> NoMenu, patient |-> TRUE, button |-> NoButton]

-----------------------------------------------------------------------------
(* What an input is taken for. *)

\* The menus a digit or label is looked up in.
Visible(context) ==
    IF context = NoMenu THEN <<"main", "deposit", "withdrawal", "other">> ELSE <<context>>

\* The first menu with a place n.
NthButton(context, n) ==
    LET menus == Visible(context)
        found == {k \in DOMAIN menus : n <= Len(MENUS[menus[k]])}
    IN IF found = {} THEN NoButton ELSE MENUS[menus[Min(found)]][n]

\* _detect_visible_menu_button_label
_detect_visible_menu_button_label(input, context) ==
    CASE input.kind = "digit" -> NthButton(context, input.n)
      [] input.kind = "label" ->
            IF \E m \in Range(Visible(context)) : input.button \in Range(MENUS[m])
            THEN input.button ELSE NoButton
      [] OTHER -> NoButton

\* _extract_livechat_button_id
_extract_livechat_button_id(input, context) ==
    IF input.kind = "click" THEN input.button
    ELSE _detect_visible_menu_button_label(input, context)

\* _detect_alias: the words of a button count where its menu can be reached.
AliasContexts(b) ==
    CASE b \in {"route_previous", "route_main", "global_human"} -> Contexts
      [] b \in {"deposit_menu", "main_deposito", "deposit_howto"} -> {"main", "deposit"}
      [] b = "withdrawal_menu" -> {"main", "withdrawal"}
      [] b \in {"other_menu", "forgot_password"} -> {"main", "other"}
      [] OTHER -> {}

\* detect_button_id, which the graph asks when the gateway found no button and
\* the row has a context.
detect_button_id(input, context) ==
    IF input.kind = "words" /\ context # NoMenu /\ context \in AliasContexts(input.button)
    THEN input.button ELSE NoButton

-----------------------------------------------------------------------------
(* The menu memory after a button. *)

Context(m) == IF m.context = NoMenu THEN "main" ELSE m.context
Previous(m) == IF m.previous = NoMenu THEN "main" ELSE m.previous

\* _navigation_menu_key
_navigation_menu_key(button, m) ==
    CASE button \in DOMAIN MENU_BY_NAV_BUTTON -> MENU_BY_NAV_BUTTON[button]
      [] button = "route_previous" -> Previous(m)
      [] OTHER -> "main"

\* A memory that forgets to go back.
_next_menu_memory_Variant(m, button) ==
    CASE button \in DOMAIN MENU_BY_NAV_BUTTON \cup {"route_main"} ->
            [context |-> _navigation_menu_key(button, m), previous |-> Context(m)]
      [] OTHER -> [m EXCEPT !.context = Context(m)]

\* _next_fast_menu_memory of the gateway, _next_menu_memory of the graph
_next_menu_memory(m, button) ==
    CASE button \in DOMAIN MENU_BY_NAV_BUTTON \cup {"route_main"} ->
            [context |-> _navigation_menu_key(button, m), previous |-> Context(m)]
      [] button = "route_previous" -> [context |-> Previous(m), previous |-> "main"]
      [] OTHER -> [m EXCEPT !.context = Context(m)]

\* _business_button_menu_memory
ButtonContext(button, m) ==
    CASE button \in {"main_deposito", "deposit_howto"} -> "deposit"
      [] button \in {"main_retiro", "withdrawal_blocked", "withdrawal_howto"} -> "withdrawal"
      [] button = "main_pending_reply" -> "main"
      [] button = "forgot_password" -> "other"
      [] OTHER -> Context(m)
_business_button_menu_memory(m, button) ==
    [context |-> ButtonContext(button, m), previous |-> Context(m)]

\* An answer from the knowledge base brings the menus of its answer blocks; the
\* menu memory does not learn of them.
FaqAnswers == {<<>>} \cup {<<get_menu(key)>> : key \in FaqMenus}

-----------------------------------------------------------------------------
(* The gateway, one event of the conversation at a time. *)

Take(button) ==
    /\ inbox' = Tail(inbox)
    /\ last' = [Head(inbox) EXCEPT !.button = button]
    /\ UNCHANGED <<shown, inputs, patient>>

\* _build_intro_menu_state: on CHAT_STARTED and THREAD_STARTED
BuildIntroMenu ==
    /\ Head(inbox).input.kind = "start"
    /\ Take(NoButton)
    /\ memory' = [memory EXCEPT !.context = "main"]
    /\ outbox' = Append(outbox, "main")
    /\ UNCHANGED human

\* _build_nav_button_state
BuildNavButton(button) ==
    /\ button \in NavButtons
    /\ memory' = _next_menu_memory(memory, button)
    /\ outbox' = Append(outbox, _navigation_menu_key(button, memory))
    /\ UNCHANGED human

\* _build_fast_handoff_state
BuildFastHandoff(button) ==
    /\ button = "global_human"
    /\ human' = TRUE
    /\ UNCHANGED <<memory, outbox>>

\* _build_business_button_state and _build_business_button_faq_state
BuildBusinessButton(button) ==
    /\ button \in Buttons \ (NavButtons \cup {"global_human"})
    /\ memory' = _business_button_menu_memory(memory, button)
    /\ \E answer \in IF button \in FaqButtons THEN FaqAnswers ELSE {<<>>} :
          outbox' = outbox \o answer
    /\ UNCHANGED human

\* _apply_menu_button_route: the graph's own look at the words
ApplyMenuButtonRoute(button) ==
    /\ button # NoButton
    /\ memory' = _next_menu_memory(memory, button)
    /\ human' = (button = "global_human")
    /\ IF button \in NavButtons
       THEN outbox' = Append(outbox, _navigation_menu_key(button, memory))
       ELSE \E answer \in IF button \in FaqButtons THEN FaqAnswers ELSE {<<>>} :
               outbox' = outbox \o answer

\* A turn about no button: the router decides, a FAQ answer may bring a menu.
OtherTurn ==
    /\ \E answer \in FaqAnswers : outbox' = outbox \o answer
    /\ UNCHANGED <<memory, human>>

\* _build_pre_graph_state, then the graph
ProcessMessage ==
    LET input == Head(inbox).input
        fast == _extract_livechat_button_id(input, memory.context)
        slow == detect_button_id(input, memory.context)
    IN /\ input.kind # "start"
       /\ Take(IF fast # NoButton THEN fast ELSE slow)
       /\ IF fast # NoButton
          THEN BuildNavButton(fast) \/ BuildFastHandoff(fast) \/ BuildBusinessButton(fast)
          ELSE IF slow # NoButton THEN ApplyMenuButtonRoute(slow) ELSE OtherTurn

\* A conversation that waits for an agent answers nothing.
RecordOnly == Take(NoButton) /\ UNCHANGED <<memory, outbox, human>>

Gateway ==
    /\ inbox # <<>>
    /\ IF human THEN RecordOnly ELSE BuildIntroMenu \/ ProcessMessage

\* The sender shows the oldest menu: as quick replies or as a numbered text.
Send ==
    /\ outbox # <<>>
    /\ shown' = Head(outbox) /\ outbox' = Tail(outbox)
    /\ UNCHANGED <<memory, inbox, human, inputs, patient, last>>

\* Neither the quick replies nor the text could be sent, and the retries are over.
SendFails ==
    /\ outbox # <<>>
    /\ outbox' = Tail(outbox) /\ patient' = FALSE
    /\ UNCHANGED <<memory, shown, inbox, human, inputs, last>>

\* LiveChat reports that the chat or a thread has started, once or again.
Started ==
    /\ inputs < MaxInputs /\ inputs' = inputs + 1
    /\ inbox' = Append(inbox, [input |-> Start, shown |-> shown,
                               patient |-> patient, button |-> NoButton])
    /\ UNCHANGED <<memory, outbox, shown, human, patient, last>>

\* The customer picks from what is on the screen, or writes something else.
CustomerInputs ==
    (IF shown = NoMenu THEN {}
     ELSE {Click(b) : b \in Range(MENUS[shown])} \cup {Label(b) : b \in Range(MENUS[shown])})
    \cup {Digit(n) : n \in Digits}
    \cup {Words(b) : b \in {"deposit_menu", "forgot_password", "route_previous",
                            "route_main", "global_human"}}
    \cup {FreeText}

CustomerWrites ==
    /\ inputs < MaxInputs /\ inputs' = inputs + 1
    /\ patient' = (patient /\ inbox = <<>> /\ outbox = <<>>)
    /\ \E input \in CustomerInputs :
          inbox' = Append(inbox, [input |-> input, shown |-> shown,
                                  patient |-> patient', button |-> NoButton])
    /\ UNCHANGED <<memory, outbox, shown, human, last>>

Next == Gateway \/ Send \/ SendFails \/ Started \/ CustomerWrites

Spec == Init /\ [][Next]_vars

-----------------------------------------------------------------------------
Entries == [input : {Nothing, FreeText, Start} \cup {Digit(n) : n \in Digits}
                    \cup {Click(b) : b \in Buttons} \cup {Label(b) : b \in Buttons}
                    \cup {Words(b) : b \in Buttons},
            shown : DOMAIN MENUS \cup {NoMenu}, patient : BOOLEAN,
            button : Buttons \cup {NoButton}]

TypeOK ==
    /\ memory \in [context : Contexts, previous : Contexts]
    /\ Range(outbox) \subseteq DOMAIN MENUS /\ shown \in DOMAIN MENUS \cup {NoMenu}
    /\ Range(inbox) \cup {last} \subseteq Entries
    /\ {human, patient} \subseteq BOOLEAN /\ inputs \in 0 .. MaxInputs

\* The item a customer means: the digit's place, or the label, on the screen.
Meant(e) ==
    IF e.input.kind = "digit" THEN MENUS[e.shown][e.input.n] ELSE e.input.button

\* A customer who waits for each answer gets what they picked: a digit or label
\* is taken for the item of the menu on the screen, whatever clicks, words, FAQ
\* answers and start events came before (the context of
\* _detect_visible_menu_button_label is the last menu shown).
PickMeansShownItem ==
    (/\ last.patient /\ last.shown # NoMenu /\ ~human
     /\ last.input.kind \in {"digit", "label"}
     /\ last.input.kind = "digit" => last.input.n <= Len(MENUS[last.shown]))
        => last.button = Meant(last)
=============================================================================
