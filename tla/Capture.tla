--------------------------------- MODULE Capture -------------------------------
(***************************************************************************)
(* Input capture: a wait selects the edge, enables the channel and its     *)
(* interrupt; an edge stores the counter in CCR and raises CCIF; the       *)
(* handler masks the channels that fired and wakes their waiters; the      *)
(* waiter polls its mask bit and reads CCR, which lowers CCIF.  A channel  *)
(* stays enabled after its wait.  One task waits, on one channel at a time. *)
(***************************************************************************)
EXTENDS Integers

CONSTANT Channels    \* the channels in use

ASSUME CaptureAssumption == Channels \subseteq 1 .. 4

VARIABLES
  cce,      \* CCER: the channels that capture, with the edges they capture
  ccie,     \* DIER: the channels with their interrupt enabled
  ccif,     \* SR: the channels with a capture
  cpc,      \* where the task is
  channel,  \* the channel of the wait
  cwaker,   \* cc_waker: the channels with a registered waker
  cwoken,   \* the task is to be polled
  unread,   \* ghost: the channels with a capture since CCR was last returned
  backlog,  \* ghost: the wait's channel was unread when the wait began
  fresh     \* ghost: the wait's channel had a capture since the wait began

captureVars == <<cce, ccie, ccif, cpc, channel, cwaker, cwoken, unread, backlog, fresh>>

Modes == {"Rising", "Falling", "BothEdges"}
Off == "off"

-------------------------------------------------------------------------------
InWait == cpc # "idle"

Captures(c, edge) ==
  /\ cce[c] \in {edge, "BothEdges"}
  /\ ccif' = ccif \cup {c} /\ unread' = unread \cup {c}
  /\ fresh' = (fresh \/ (InWait /\ cpc # "done" /\ c = channel))
  /\ UNCHANGED <<cce, ccie, cpc, channel, cwaker, cwoken, backlog>>

\* Mutant: only the lowest channel that fired is masked, and its task woken.
on_capture_lowest ==
  /\ ccif \cap ccie # {}
  /\ \E c \in ccif :
       /\ \A d \in ccif : c <= d
       /\ ccie' = ccie \ {c}
       /\ cwoken' = (cwoken \/ (c = channel /\ c \in cwaker))
       /\ cwaker' = cwaker \ {c}
  /\ UNCHANGED <<cce, ccif, cpc, channel, unread, backlog, fresh>>

\* CaptureCompareInterruptHandler.
on_capture ==
  /\ ccif \cap ccie # {}
  /\ ccie' = ccie \ ccif
  /\ cwoken' = (cwoken \/ (channel \in ccif /\ channel \in cwaker))
  /\ cwaker' = cwaker \ ccif
  /\ UNCHANGED <<cce, ccif, cpc, channel, unread, backlog, fresh>>

-------------------------------------------------------------------------------
enable(c, on) ==
  /\ ~InWait
  /\ cce' = [cce EXCEPT ![c] = IF ~on THEN Off ELSE IF @ = Off THEN "Rising" ELSE @]
  /\ UNCHANGED <<ccie, ccif, cpc, channel, cwaker, cwoken, unread, backlog, fresh>>

\* wait_for_*: neither CCIF nor CCR of an earlier capture is discarded.
new_capture(c, mode) ==
  /\ ~InWait /\ cpc' = "poll"
  /\ cce' = [cce EXCEPT ![c] = mode]
  /\ ccie' = ccie \cup {c}
  /\ channel' = c
  /\ backlog' = (c \in unread) /\ fresh' = FALSE
  /\ UNCHANGED <<ccif, cwaker, cwoken, unread>>

register_cc ==
  /\ cpc = "poll" /\ cpc' = "registered"
  /\ cwaker' = cwaker \cup {channel} /\ cwoken' = FALSE
  /\ UNCHANGED <<cce, ccie, ccif, channel, unread, backlog, fresh>>

read_dier ==
  /\ cpc = "registered" /\ cpc' = IF channel \in ccie THEN "pending" ELSE "ready"
  /\ UNCHANGED <<cce, ccie, ccif, channel, cwaker, cwoken, unread, backlog, fresh>>

\* Mutant: the counter is returned and CCR not read, so CCIF stays.
read_ccr_not ==
  /\ cpc = "ready" /\ cpc' = "done"
  /\ unread' = unread \ {channel}
  /\ UNCHANGED <<cce, ccie, ccif, channel, cwaker, cwoken, backlog, fresh>>

read_ccr ==
  /\ cpc = "ready" /\ cpc' = "done"
  /\ ccif' = ccif \ {channel} /\ unread' = unread \ {channel}
  /\ UNCHANGED <<cce, ccie, channel, cwaker, cwoken, backlog, fresh>>

repoll_cc ==
  /\ cpc = "pending" /\ cwoken /\ cpc' = "poll"
  /\ UNCHANGED <<cce, ccie, ccif, channel, cwaker, cwoken, unread, backlog, fresh>>

\* InputCaptureFuture::drop, after the value or before.
drop_capture ==
  /\ cpc \in {"done", "pending"} /\ cpc' = "idle"
  /\ ccie' = ccie \ {channel}
  /\ UNCHANGED <<cce, ccif, channel, cwaker, cwoken, unread, backlog, fresh>>

-------------------------------------------------------------------------------
CaptureInit ==
  /\ cce = [c \in Channels |-> Off]
  /\ ccie = {} /\ ccif = {} /\ cwaker = {} /\ unread = {}
  /\ cpc = "idle" /\ channel \in Channels
  /\ cwoken = FALSE /\ backlog = FALSE /\ fresh = FALSE

CaptureStep == register_cc \/ read_dier \/ read_ccr \/ repoll_cc

CaptureNext ==
  \/ on_capture \/ CaptureStep \/ drop_capture
  \/ \E c \in Channels :
       \/ \E edge \in {"Rising", "Falling"} : Captures(c, edge)
       \/ \E on \in BOOLEAN : enable(c, on)
       \/ \E mode \in Modes : new_capture(c, mode)

\* The processor and the executor go on.
CaptureFairness == WF_captureVars(on_capture \/ CaptureStep)

-------------------------------------------------------------------------------
\* A wait returns a capture made after it began, unless its channel, which the
\* last wait left enabled, has captured an edge since and nobody took it: that
\* one is what the wait then returns at once.
CaptureIsAwaited == cpc = "done" => fresh \/ backlog

\* A wait whose edge was captured ends, or is cancelled, whatever the other
\* channels capture.
CaptureEndsWait == (InWait /\ fresh) ~> cpc \in {"done", "idle"}

================================================================================
