--------------------------- MODULE MonitorBroadcasts ---------------------------
(***************************************************************************)
(* The launch monitors of the monitor bot's chats, /monitor, /stopmonitor  *)
(* and /alerts, and the broadcasts of launches, graduations, whale trades  *)
(* and fee distributions (packages/monitor/src: launch-store.ts, bot.ts,   *)
(* index.ts).  A broadcast keeps references to the entries it found at its *)
(* start: stopping or changing alerts alters an entry, while /monitor puts *)
(* a new one in its place.  Nothing is saved.                              *)
(***************************************************************************)
EXTENDS Naturals, FiniteSets

CONSTANTS Chat,
          Kind,            \* of alerts, "launches" and "graduations" among them
          MaxBroadcasts,   \* bound: broadcasts
          None

VARIABLES monitors,    \* the entry of each chat, or None
          broadcast,   \* `replaced`: entries it refers to that are their chat's no more
          sent,         \* history: messages asked for, by broadcast and chat
          wanting       \* history: the chats that wanted one, by broadcast

vars == <<monitors, broadcast, sent, wanting>>

Broadcast == 1..MaxBroadcasts
Unused == [at |-> "unused", kind |-> "none", github |-> FALSE, left |-> {}, replaced |-> <<>>]

Init == /\ monitors = [c \in Chat |-> None]
        /\ broadcast = [n \in Broadcast |-> Unused]
        /\ sent = [n \in Broadcast |-> [c \in Chat |-> 0]]
        /\ wanting = [n \in Broadcast |-> [active |-> {}, always |-> {}, ever |-> {}]]

\* An entry that the alert toggles and the GitHub filter let a broadcast through to.
Lets(entry, kind, github) == kind \in entry.alerts /\ (entry.githubOnly => github)
LetBy(ms, kind, github) == {c \in Chat : ms[c] # None /\ Lets(ms[c], kind, github)}
ActiveBy(ms) == {c \in Chat : ms[c] # None /\ ms[c].active}

\* The chats that are active and let a broadcast under way through all the while; and
\* those active at its event that let it through at some moment since.
Since == wanting' = [n \in Broadcast |->
             IF broadcast[n].at \in {"unused", "done"} THEN wanting[n]
             ELSE LET now == LetBy(monitors', broadcast[n].kind, broadcast[n].github)
                  IN [wanting[n] EXCEPT !.always = @ \cap now \cap ActiveBy(monitors'),
                                      !.ever = @ \cup (now \cap wanting[n].active)]]

------------------------------------------------------------------------------
(* Commands *)

AlertsOf(chat) == IF monitors[chat] = None THEN Kind ELSE monitors[chat].alerts
NewEntry(githubOnly, alerts) == [active |-> TRUE, githubOnly |-> githubOnly, alerts |-> alerts]

\* The broadcasts that still refer to the chat's entry keep it as it is.
Keeping(chat) ==
    [n \in Broadcast |->
        IF chat \in broadcast[n].left \ DOMAIN broadcast[n].replaced
        THEN [broadcast[n] EXCEPT !.replaced =
                 [c \in DOMAIN @ \cup {chat} |-> IF c = chat THEN monitors[c] ELSE @[c]]]
        ELSE broadcast[n]]

\* /monitor [github]: activateMonitor() takes the old entry's alerts over.
ActivateMonitor(chat, githubOnly) ==
    /\ monitors' = [monitors EXCEPT ![chat] = NewEntry(githubOnly, AlertsOf(chat))]
    /\ broadcast' = Keeping(chat)
    /\ Since
    /\ UNCHANGED sent

\* /stopmonitor
DeactivateMonitor(chat) ==
    /\ chat \in ActiveBy(monitors)
    /\ monitors' = [monitors EXCEPT ![chat].active = FALSE]
    /\ Since
    /\ UNCHANGED <<broadcast, sent>>

\* /alerts: updateAlerts() makes an active entry for a chat that has none.
UpdateAlerts(chat, kinds, on) ==
    LET alerts == IF on THEN AlertsOf(chat) \cup kinds ELSE AlertsOf(chat) \ kinds
    IN /\ monitors' = [monitors EXCEPT ![chat] =
              IF @ = None THEN NewEntry(FALSE, alerts) ELSE [@ EXCEPT !.alerts = alerts]]
       /\ Since
       /\ UNCHANGED <<broadcast, sent>>

------------------------------------------------------------------------------
(* Broadcasts *)

\* The entry that broadcast b refers to for a chat.
Entry(b, chat) == IF chat \in DOMAIN b.replaced THEN b.replaced[chat] ELSE monitors[chat]

Sending(b, left) == [b EXCEPT !.at = "sending", !.left = left,
                              !.replaced = [c \in left \cap DOMAIN @ |-> @[c]]]

\* The stretch of a broadcast's loop up to the next message: the chats not let
\* through are passed over, in an order that is left open.
Loop_Unfiltered(n, b) ==
    LET wanted == {c \in b.left : Entry(b, c).active}
    IN \/ /\ wanted = {}
          /\ broadcast' = [broadcast EXCEPT ![n] = [Unused EXCEPT !.at = "done"]]
          /\ UNCHANGED sent
       \/ \E c \in wanted, passed \in SUBSET (b.left \ wanted) :
              /\ broadcast' = [broadcast EXCEPT ![n] = Sending(b, b.left \ (passed \cup {c}))]
              /\ sent' = [sent EXCEPT ![n][c] = @ + 1]
Loop(n, b) ==
    LET wanted == {c \in b.left : Lets(Entry(b, c), b.kind, b.github)}
    IN \/ /\ wanted = {}
          /\ broadcast' = [broadcast EXCEPT ![n] = [Unused EXCEPT !.at = "done"]]
          /\ UNCHANGED sent
       \/ \E c \in wanted, passed \in SUBSET (b.left \ wanted) :
              /\ broadcast' = [broadcast EXCEPT ![n] = Sending(b, b.left \ (passed \cup {c}))]
              /\ sent' = [sent EXCEPT ![n][c] = @ + 1]

\* An event: getActiveMonitors() at once; a graduation's message then awaits a
\* lookup of the token, the others' are sent from here on.  Only launches are
\* tested for GitHub, which is the same as passing the test.
Happen(n, kind, github) ==
    /\ broadcast[n].at = "unused" /\ \A k \in Broadcast : k < n => broadcast[k].at # "unused"
    /\ kind # "launches" => github
    /\ LET active == ActiveBy(monitors)
           found == [Unused EXCEPT !.kind = kind, !.github = github, !.left = active]
           now == LetBy(monitors, kind, github) \cap active
       IN /\ \/ /\ kind = "graduations"
                /\ broadcast' = [broadcast EXCEPT ![n] = [found EXCEPT !.at = "formatting"]]
                /\ UNCHANGED sent
             \/ kind # "graduations" /\ Loop(n, found)
          /\ wanting' = [wanting EXCEPT ![n] = [active |-> active, always |-> now, ever |-> now]]
    /\ UNCHANGED monitors

\* The message is formatted, or the one before was sent or refused.
GoOn(n) == /\ broadcast[n].at \in {"formatting", "sending"}
           /\ Loop(n, broadcast[n])
           /\ UNCHANGED <<monitors, wanting>>

Next == \/ \E c \in Chat : \/ \E g \in BOOLEAN : ActivateMonitor(c, g)
                           \/ DeactivateMonitor(c)
                           \/ \E ks \in {{k} : k \in Kind} \cup {Kind}, on \in BOOLEAN :
                                  UpdateAlerts(c, ks, on)
        \/ \E n \in Broadcast : \/ \E k \in Kind, g \in BOOLEAN : Happen(n, k, g)
                                \/ GoOn(n)

Spec == Init /\ [][Next]_vars

------------------------------------------------------------------------------
\* A broadcast reaches every chat that is active and lets it through all the while,
\* whatever the others change meanwhile; no chat twice, and none that was not active
\* at the event or let it through at no moment since, though the entries it looks
\* at may have been replaced.
BroadcastReaches ==
    \A n \in Broadcast :
        /\ broadcast[n].at = "done" => \A c \in wanting[n].always : sent[n][c] = 1
        /\ \A c \in Chat : sent[n][c] > 0 => sent[n][c] = 1 /\ c \in wanting[n].ever

=============================================================================
