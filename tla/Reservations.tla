---------------------------- MODULE Reservations ----------------------------
(***************************************************************************)
(* Capacity reservations of one organization (internal/ops/reservations.go *)
(* behind internal/httpapi/ops.go).                                        *)
(*                                                                         *)
(* A request counts the GPUs of the label it asks for, adds up the         *)
(* bookings that overlap its window, and inserts its own, in three         *)
(* statements without a transaction.  Agents add GPUs and the removal of   *)
(* a node takes them away meanwhile.  A label is the text of the request   *)
(* ("any", a model, part of a model's name): GPUs are matched by pattern,  *)
(* bookings by the label itself.                                           *)
(***************************************************************************)
EXTENDS Integers, Sequences, FiniteSets, FiniteSetsExt

CONSTANTS
    Gpu,        \* GPUs the organization may own
    Label,      \* gpu_model of a request
    GpusOf,     \* [Label -> SUBSET Gpu]: the pattern match of a label
    MaxRes,     \* bound: reservations made
    Client,     \* requests in flight at a time
    Horizon     \* bound: instants are 0 .. Horizon

ASSUME ReservationsAssumption ==
    /\ GpusOf \in [Label -> SUBSET Gpu]
    /\ IsFiniteSet(Gpu) /\ IsFiniteSet(Client)
    /\ MaxRes \in Nat
    /\ Horizon \in Nat

VARIABLES
    gpus,       \* rows of gpus
    res,        \* rows of reservations, in the order of their inserts
    booking,    \* requests in flight
    met,        \* two requests have been in flight at once (history)
    shrunk      \* labels that lost a GPU or an answer of the database (history)

resVars == <<gpus, res, booking, met, shrunk>>

-----------------------------------------------------------------------------
\* gpu_count and the half-open window [from, to), as the request asks for them
\* (CHECK: a positive count, an end after the start).
Reservation ==
    {r \in [label: Label, count: 1 .. Cardinality(Gpu),
            from: 0 .. Horizon, to: 0 .. Horizon] : r.from < r.to}

Waiting == [at |-> "idle"]

RTypeOK ==
    /\ gpus \subseteq Gpu
    /\ res \in Seq([ask: Reservation, cancelled: BOOLEAN])
    /\ booking \in [Client -> [at: {"peak", "insert"}, ask: Reservation,
                               total: Nat, already: Nat] \cup {Waiting}]
    /\ met \in BOOLEAN
    /\ shrunk \subseteq Label

RInit ==
    /\ gpus = {}
    /\ res = <<>>
    /\ booking = [c \in Client |-> Waiting]
    /\ met = FALSE
    /\ shrunk = {}

-----------------------------------------------------------------------------
totalGPUs(l) == Cardinality(gpus \cap GpusOf[l])

\* Mutant of Overlaps: only the bookings that cover the whole window.
Covers(r, ask) == r.from <= ask.from /\ r.to >= ask.to

Overlaps(r, ask) == r.from < ask.to /\ r.to > ask.from

Counted(i, ask) ==
    /\ ~res[i].cancelled
    /\ res[i].ask.label = ask.label
    /\ Overlaps(res[i].ask, ask)

\* Mutant of peakReserved: cancelled bookings are taken off the sum.
PeakLessCancelled(ask) ==
    MapThenSumSet(LAMBDA i : IF res[i].cancelled THEN 0 - res[i].ask.count ELSE res[i].ask.count,
        {i \in DOMAIN res : res[i].ask.label = ask.label /\ Overlaps(res[i].ask, ask)})

\* GPUs of the bookings in I.
GpusBooked(I) == SumFunctionOnSet([i \in DOMAIN res |-> res[i].ask.count], I)

peakReserved(ask) == GpusBooked({i \in DOMAIN res : Counted(i, ask)})

\* POST /reservations: the handler fills in "any", the service refuses a count
\* or a window that is not positive, and counts the GPUs.  The error of that
\* query is dropped: the count is then 0.
createReservation(c, ask) ==
    /\ booking[c] = Waiting
    /\ \E n \in {totalGPUs(ask.label), 0} :
          booking' = [booking EXCEPT ![c] =
              [at |-> "peak", ask |-> ask, total |-> n, already |-> 0]]
    /\ met' = (met \/ \E d \in Client : booking[d] # Waiting)
    /\ UNCHANGED <<gpus, res, shrunk>>

\* Here too: a failed query reads as nothing reserved.
ReadPeak(c) ==
    /\ booking[c].at = "peak"
    /\ LET ask == booking[c].ask IN
       \E n \in {peakReserved(ask), 0} :
          /\ booking' = [booking EXCEPT ![c].already = n, ![c].at = "insert"]
          /\ shrunk' = IF n = peakReserved(ask) THEN shrunk ELSE shrunk \cup {ask.label}
    /\ UNCHANGED <<gpus, res, met>>

Fits(b) == b.already + b.ask.count <= b.total

CreateReservation(c) ==
    /\ booking[c].at = "insert"
    /\ \/ /\ Fits(booking[c])
          /\ Len(res) < MaxRes
          /\ res' = Append(res, [ask |-> booking[c].ask, cancelled |-> FALSE])
       \/ UNCHANGED res    \* ErrOverbooked, or the insert fails
    /\ booking' = [booking EXCEPT ![c] = Waiting]
    /\ UNCHANGED <<gpus, met, shrunk>>

\* DELETE /reservations/{id}: at any time, any number of times.
CancelReservation(i) ==
    /\ res' = [res EXCEPT ![i].cancelled = TRUE]
    /\ UNCHANGED <<gpus, booking, met, shrunk>>

\* An agent's inventory report adds a GPU; the removal of its node deletes it.
GpuReported(g) ==
    /\ g \notin gpus
    /\ gpus' = gpus \cup {g}
    /\ UNCHANGED <<res, booking, met, shrunk>>

GpuRemoved(g) ==
    /\ g \in gpus
    /\ gpus' = gpus \ {g}
    /\ shrunk' = shrunk \cup {l \in Label : g \in GpusOf[l]}
    /\ UNCHANGED <<res, booking, met>>

RNext ==
    \/ \E c \in Client :
          \/ \E ask \in Reservation : createReservation(c, ask)
          \/ ReadPeak(c) \/ CreateReservation(c)
    \/ \E i \in DOMAIN res : CancelReservation(i)
    \/ \E g \in Gpu : GpuReported(g) \/ GpuRemoved(g)

RSpec == RInit /\ [][RNext]_resVars

-----------------------------------------------------------------------------
\* GPUs of label l booked at instant t.
BookedAt(l, t) ==
    GpusBooked({i \in DOMAIN res : /\ ~res[i].cancelled
                                   /\ res[i].ask.label = l
                                   /\ res[i].ask.from <= t /\ t < res[i].ask.to})

\* No instant is booked beyond the GPUs of a label that keeps its GPUs: summing
\* the overlapping bookings never under-books.  Requests that race overbook it
\* by at most one capacity each, because only the requests in flight when the
\* last of them read the bookings were missed.
NotOverbooked ==
    \A l \in Label \ shrunk, t \in 0 .. Horizon :
        BookedAt(l, t) <= (IF met THEN Cardinality(Client) ELSE 1) * totalGPUs(l)
=============================================================================
