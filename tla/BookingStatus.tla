--------------------------- MODULE BookingStatus ---------------------------
(***************************************************************************)
(* The lifecycle of one booking, shared by every module that stores or     *)
(* observes a booking (booking-service app/domain/state_machine.py).       *)
(***************************************************************************)

Terminal == {"CANCELLED", "PAYMENT_FAILED", "SETTLED", "CANDIDATE_NO_SHOW",
             "INTERVIEWER_NO_SHOW", "TECHNICAL_FAILURE", "REFUNDED",
             "RESCHEDULED"}

BookingStatus == Terminal \cup
    {"PAYMENT_PENDING", "BOOKED", "CONFIRMED", "READY", "IN_PROGRESS",
     "COMPLETED", "FEEDBACK_PENDING", "FEEDBACK_SUBMITTED"}

\* ALLOWED: the statuses that may follow status st; none follows a terminal one.
Allowed(st) ==
    CASE st = "PAYMENT_PENDING"    -> {"BOOKED", "PAYMENT_FAILED", "CANCELLED"}
      [] st = "BOOKED"             -> {"CONFIRMED", "CANCELLED", "REFUNDED"}
      [] st = "CONFIRMED"          -> {"READY", "CANCELLED", "RESCHEDULED", "REFUNDED"}
      [] st = "READY"              -> {"IN_PROGRESS", "CANDIDATE_NO_SHOW",
                                       "INTERVIEWER_NO_SHOW", "TECHNICAL_FAILURE"}
      [] st = "IN_PROGRESS"        -> {"COMPLETED", "TECHNICAL_FAILURE"}
      [] st = "COMPLETED"          -> {"FEEDBACK_PENDING"}
      [] st = "FEEDBACK_PENDING"   -> {"FEEDBACK_SUBMITTED"}
      [] st = "FEEDBACK_SUBMITTED" -> {"SETTLED"}
      [] OTHER                     -> {}

CanTransition(current, target) == target \in Allowed(current)

OccupiesTime(st) == st \notin Terminal

=============================================================================
