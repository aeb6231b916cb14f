----------------------------- MODULE Notifications -----------------------------
(***************************************************************************)
(* NotificationDispatcher.dispatch, packages/integrations/outbound.py: one *)
(* alert to a list of channels, one after the other.                       *)
(*                                                                         *)
(* A channel is its type, the parameters its dict has (an SMTP host and    *)
(* the keys of a Twilio configuration count as parameters), and whether a  *)
(* payload can be made and encoded of the alert for it.  A service may     *)
(* take a notification whose answer is lost or comes too late.             *)
(***************************************************************************)
EXTENDS Integers, Sequences

CONSTANT
    ChannelLists    \* the lists of channels dispatched to

Parameters == {"webhook_url", "to", "smtp_config", "host", "twilio_config", "twilio_keys", "routing_key"}

Channels == [type : {"slack", "email", "sms", "pagerduty", "teams", "unknown"},
             has : SUBSET Parameters, sendable : BOOLEAN]

ASSUME NotificationsAssumption == ChannelLists \subseteq Seq(Channels)

VARIABLES
    channels,   \* the list dispatched to
    current,    \* index of the channel at hand
    sending,    \* whether its send_* awaits the service
    report,     \* the result dicts: "sent", "refused" (success False alone) or "error"
    inFlight,   \* channels whose notification is on its way
    delivered   \* channels whose service has taken it

notificationVars == <<channels, current, sending, report, inFlight, delivered>>

NotificationsInit ==
    /\ channels \in ChannelLists
    /\ current = 1 /\ sending = FALSE /\ report = <<>>
    /\ inFlight = {} /\ delivered = {}

Channel == channels[current]

------------------------------------------------------------------------------
(* The send_* methods: the parameters that must be there before the try, those read in    *)
(* it, and whether it catches every exception or only those of httpx.                     *)

SendSlack == [before |-> {"webhook_url"}, inside |-> {}, catchesAll |-> FALSE]

SendEmail == [before |-> {"to", "smtp_config"}, inside |-> {"host"}, catchesAll |-> TRUE]

SendSms == [before |-> {"to", "twilio_config", "twilio_keys"}, inside |-> {}, catchesAll |-> FALSE]

SendPagerduty == [before |-> {"routing_key"}, inside |-> {}, catchesAll |-> FALSE]

SendTeams == [before |-> {"webhook_url"}, inside |-> {}, catchesAll |-> FALSE]

Senders == [slack |-> SendSlack, email |-> SendEmail, sms |-> SendSms, pagerduty |-> SendPagerduty, teams |-> SendTeams]

Known == Channel.type \in DOMAIN Senders

Sender == Senders[Channel.type]

Configured == Known /\ Sender.before \subseteq Channel.has

Sends == Configured /\ Sender.inside \subseteq Channel.has /\ Channel.sendable

------------------------------------------------------------------------------
Pending == ~sending /\ current <= Len(channels)

Report(result) ==
    /\ report' = Append(report, result)
    /\ sending' = FALSE
    /\ current' = current + 1
    /\ UNCHANGED channels

\* A missing parameter, an unknown type, a payload that cannot be made or encoded: nothing has
\* been sent, and the result has the error unless the method keeps it to itself.
CannotSend ==
    /\ Pending
    /\ ~Sends
    /\ Report(IF Configured /\ Sender.catchesAll THEN "refused" ELSE "error")
    /\ UNCHANGED <<inFlight, delivered>>

Post ==
    /\ Pending
    /\ Sends
    /\ sending' = TRUE
    /\ inFlight' = inFlight \cup {current}
    /\ UNCHANGED <<channels, current, report, delivered>>

ServiceTakes(i) ==
    /\ i \in inFlight
    /\ inFlight' = inFlight \ {i}
    /\ delivered' = delivered \cup {i}
    /\ UNCHANGED <<channels, current, sending, report>>

ServiceLoses(i) ==
    /\ i \in inFlight
    /\ inFlight' = inFlight \ {i}
    /\ UNCHANGED <<channels, current, sending, report, delivered>>

SendReturns ==
    /\ sending /\ current \in delivered
    /\ Report("sent")
    /\ UNCHANGED <<inFlight, delivered>>

FailsLoudly == "error"

Fails == "refused"

\* An error status, a lost connection or a timeout.
SendFails ==
    /\ sending
    /\ Report(Fails)
    /\ UNCHANGED <<inFlight, delivered>>

DispatchStep == CannotSend \/ Post \/ SendReturns \/ SendFails

NotificationsNext == DispatchStep \/ \E i \in inFlight : ServiceTakes(i) \/ ServiceLoses(i)

NotificationsSpec == NotificationsInit /\ [][NotificationsNext]_notificationVars

------------------------------------------------------------------------------
(* Properties. *)

NotificationsTypeOK ==
    /\ channels \in ChannelLists
    /\ current \in 1 .. Len(channels) + 1
    /\ sending \in BOOLEAN
    /\ report \in Seq({"sent", "refused", "error"})
    /\ inFlight \subseteq DOMAIN channels /\ delivered \subseteq DOMAIN channels

\* Each channel has its result, in its place, whatever became of the ones before it.  A "sent"
\* was delivered, and one with an error was not and will not be, so that it can be sent again;
\* a bare failure may have been delivered, or be yet (outbound.py:87, a timeout after the POST).
ResultsTellWhatIsSafe ==
    /\ Len(report) = current - 1
    /\ \A i \in DOMAIN report : /\ report[i] = "sent" => i \in delivered
                                /\ report[i] = "error" => i \notin delivered \cup inFlight
    /\ \A i \in delivered \cup inFlight : i <= current
================================================================================
