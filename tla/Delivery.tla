------------------------------- MODULE Delivery -------------------------------
(* One delivery of an alert or an inspection summary                          *)
(* (alerts/delivery.rs, delivery/webhook.rs, delivery/smtp.rs): the webhook   *)
(* first, then SMTP, each tried again a few times after an error that may     *)
(* pass.  A webhook attempt is one request; an SMTP attempt is a dialogue of  *)
(* commands, any of which the peer may refuse, and in which the connection or *)
(* the timeout may strike at any point, also after the peer has accepted the  *)
(* message.                                                                   *)
(*                                                                            *)
(* Formatting, TLS, signatures and the reading of response lines are left     *)
(* out: what matters of them is which error they end in.                      *)
EXTENDS Naturals, Sequences, FiniteSets

CONSTANTS
  Recipients,   \* number of mail recipients
  MaxDeliveryAttempts   \* DELIVERY_MAX_ATTEMPTS

ASSUME DeliveryAssumption == Recipients \in Nat \ {0} /\ MaxDeliveryAttempts \in Nat \ {0}

VARIABLES
  kind,       \* "triggered", "resolved" or "inspection"
  settings,   \* the alerting configuration the delivery was queued with
  channel,    \* the channel that is being tried, or "ended"
  attempts,   \* attempts of each channel
  outcome,    \* result of each channel: "skipped", "trying", "ok" or an error
  step,       \* the step of the SMTP dialogue, or "idle"
  envelope,   \* recipients the mail server has accepted in this dialogue
  accepted    \* history: for each channel, how many recipients each accepted message had

deliveryVars == <<kind, settings, channel, attempts, outcome, step, envelope, accepted>>

Channels == {"webhook", "smtp"}

(* AlertDeliveryError, by what decides about another attempt.  Every refusal  *)
(* of a mail server counts as one that may pass.                              *)
Passing == {"timeout", "io", "tls", "invalid_response", "http_busy", "smtp_refused"}
Lasting == {"invalid_url", "http_refused", "response_too_large", "invalid_header"}

Settings ==
  [enabled : SUBSET Channels,        \* channels that are switched on
   routed : SUBSET Channels,         \* delivery list of the rule or of the inspection
   ruleSendsResolved : BOOLEAN,
   channelSendsResolved : SUBSET Channels,
   wellFormed : SUBSET Channels]     \* webhook url parses; mail headers are valid

Unrouted ==
  [enabled |-> {}, routed |-> {}, ruleSendsResolved |-> FALSE,
   channelSendsResolved |-> {}, wellFormed |-> {}]

(* should_send_webhook, should_send_smtp and their inspection counterparts. *)
ShouldSend(c) ==
  /\ c \in settings.enabled \cap settings.routed
  /\ kind = "resolved" => settings.ruleSendsResolved /\ c \in settings.channelSendsResolved

DeliveryInit ==
  /\ kind \in {"triggered", "resolved", "inspection"}
  /\ settings \in Settings
  /\ channel = "webhook"
  /\ attempts = [c \in Channels |-> 0]
  /\ outcome = [c \in Channels |-> "skipped"]
  /\ step = "idle"
  /\ envelope = 0
  /\ accepted = [c \in Channels |-> << >>]

-----------------------------------------------------------------------------
NextChannel == IF channel = "webhook" THEN "smtp" ELSE "ended"

Skip ==
  /\ channel \in Channels /\ ~ShouldSend(channel) /\ outcome[channel] = "skipped"
  /\ channel' = NextChannel
  /\ UNCHANGED <<kind, settings, attempts, outcome, step, envelope, accepted>>

(* The end of an attempt: the channel is settled, or is tried once more. *)
Settled(result) ==
  result = "ok" \/ result \in Lasting \/ attempts'[channel] >= MaxDeliveryAttempts

AttemptEnds(result) ==
  /\ outcome' = [outcome EXCEPT ![channel] = IF Settled(result) THEN result ELSE "trying"]
  /\ channel' = IF Settled(result) THEN NextChannel ELSE channel
  /\ step' = "idle" /\ envelope' = 0

CanTry(c) == channel = c /\ step = "idle" /\ ShouldSend(c)

CountAttempt == attempts' = [attempts EXCEPT ![channel] = @ + 1]

Accept(recipients) == accepted' = [accepted EXCEPT ![channel] = Append(@, recipients)]

(* A message that cannot be built fails before anything is sent. *)
BuildFails ==
  /\ channel \in Channels /\ CanTry(channel) /\ channel \notin settings.wellFormed
  /\ CountAttempt
  /\ AttemptEnds(IF channel = "webhook" THEN "invalid_url" ELSE "invalid_header")
  /\ UNCHANGED <<kind, settings, accepted>>

(* A request: it never arrives, or the receiver takes it and the answer says  *)
(* so, or gets lost, or the receiver refuses it.                              *)
WebhookAttempt ==
  /\ CanTry("webhook") /\ "webhook" \in settings.wellFormed
  /\ CountAttempt
  /\ \/ /\ \E error \in {"timeout", "io", "tls", "http_busy", "http_refused"} : AttemptEnds(error)
        /\ UNCHANGED accepted
     \/ /\ \E answer \in {"ok", "timeout", "io", "invalid_response", "response_too_large"} :
             AttemptEnds(answer)
        /\ Accept(1)
  /\ UNCHANGED <<kind, settings>>

-----------------------------------------------------------------------------
(* The SMTP dialogue.  "greeting" stands for the connection, its greeting,    *)
(* EHLO, STARTTLS and AUTH, which differ only in the answers they expect.     *)

SmtpConnect ==
  /\ CanTry("smtp") /\ "smtp" \in settings.wellFormed
  /\ CountAttempt
  /\ step' = "greeting" /\ envelope' = 0
  /\ UNCHANGED <<kind, settings, channel, outcome, accepted>>

Advance(from, to) ==
  /\ step = from /\ step' = to
  /\ UNCHANGED <<kind, settings, channel, attempts, outcome, accepted>>

Greet == Advance("greeting", "mail") /\ UNCHANGED envelope
MailFrom == Advance("mail", "rcpt") /\ UNCHANGED envelope

(* Faulty variant: recipients that are refused are passed over. *)
RefusalsPassedOver ==
  /\ envelope' \in envelope .. Recipients
  /\ Advance("rcpt", "data")

RecipientAccepted ==
  /\ envelope < Recipients /\ envelope' = envelope + 1
  /\ Advance("rcpt", IF envelope' = Recipients THEN "data" ELSE "rcpt")

Data == Advance("data", "body") /\ UNCHANGED envelope

(* The message and the final dot; the server takes responsibility for it      *)
(* before its answer arrives.                                                 *)
BodyAccepted ==
  /\ step = "body" /\ step' = "answer"
  /\ Accept(envelope)
  /\ UNCHANGED <<kind, settings, channel, attempts, outcome, envelope>>

AnswerArrives == Advance("answer", "quit") /\ UNCHANGED envelope

(* The answer to QUIT is read but not looked at. *)
Quit ==
  /\ step = "quit"
  /\ UNCHANGED <<kind, settings, attempts, accepted>>
  /\ AttemptEnds("ok")

(* The peer refuses a command, or closes before it has answered: the whole    *)
(* dialogue ends.                                                             *)
SmtpRefuses ==
  /\ step \in {"greeting", "mail", "rcpt", "data", "body", "answer"}
  /\ UNCHANGED <<kind, settings, attempts, accepted>>
  /\ AttemptEnds("smtp_refused")

(* The connection fails or 15 seconds have passed, in the dialogue or while   *)
(* QUIT is sent or its answer awaited.                                        *)
DialogueBreaks ==
  /\ step # "idle"
  /\ UNCHANGED <<kind, settings, attempts, accepted>>
  /\ \E error \in {"timeout", "io"} : AttemptEnds(error)

Ended == channel = "ended" /\ UNCHANGED deliveryVars

DeliveryNext ==
  \/ Skip \/ BuildFails \/ WebhookAttempt
  \/ SmtpConnect \/ Greet \/ MailFrom \/ RecipientAccepted \/ Data
  \/ BodyAccepted \/ AnswerArrives \/ Quit \/ SmtpRefuses \/ DialogueBreaks
  \/ Ended

-----------------------------------------------------------------------------
(* What is reported to the dispatcher: DeliveryErrors::into_result. *)
Reported == IF \E c \in Channels : outcome[c] \in Passing \cup Lasting THEN "failed" ELSE "ok"

DeliveryTypeOK ==
  /\ channel \in Channels \cup {"ended"}
  /\ attempts \in [Channels -> 0 .. MaxDeliveryAttempts]
  /\ outcome \in [Channels -> {"skipped", "trying", "ok"} \cup Passing \cup Lasting]
  /\ step \in {"idle", "greeting", "mail", "rcpt", "data", "body", "answer", "quit"}
  /\ envelope \in 0 .. Recipients
  /\ \A c \in Channels : Len(accepted[c]) <= MaxDeliveryAttempts

(* A delivery that is reported as done has reached, on every channel it was   *)
(* routed to, everybody it was meant for: an error of one channel does not    *)
(* keep it from the other, a mail is accepted for all of its recipients or    *)
(* for none, and an error that may pass is given up only after the last       *)
(* attempt (deliver_alert_event, retry_delivery, run_smtp_dialog).            *)
SuccessReachesEverybody ==
  channel = "ended" =>
    /\ \A c \in Channels : ShouldSend(c) <=> attempts[c] > 0
    /\ Reported = "ok" =>
         \A c \in Channels : ShouldSend(c) => accepted[c] # << >>
    /\ \A i \in DOMAIN accepted["smtp"] : accepted["smtp"][i] = Recipients
    /\ \A c \in Channels : outcome[c] \in Passing => attempts[c] = MaxDeliveryAttempts
=============================================================================
