-------------------------------- MODULE Meter -------------------------------
(***************************************************************************)
(* What loop() of examples/ESP8266MeshSensor does with the readings of the *)
(* HLW8012: a window of three in which a single reading between two zeros  *)
(* is taken for a spike, sums that build_json() divides by the number of   *)
(* samples, and the energy, which no status begins anew.  Power, current   *)
(* and voltage each go the same way.  Which calls of loop() find a sample  *)
(* due and which send a status is left open; the time between two samples, *)
(* by which the energy is weighed, is taken for always the same.           *)
(***************************************************************************)
EXTENDS Integers, Sequences

CONSTANTS
    MinReading, \* HLW8012_MIN_POWER, HLW8012_MIN_CURRENT
    MaxReading, \* bound: the largest reading
    MaxSamples, \* bound: samples between two resets
    MaxStatuses \* bound: statuses between two resets

ASSUME MeterAssumption ==
    /\ MinReading \in Nat /\ MaxReading \in Nat
    /\ MaxSamples \in Nat /\ MaxStatuses \in Nat

VARIABLES
    power,              \* the window
    power_sum,
    power_sample_count,
    energy,
    sent,               \* history: the statuses, [average, at], with the
                        \* number of samples before each
    samples             \* history: what was read

meterVars == <<power, power_sum, power_sample_count, energy, sent, samples>>

\* hlw8012_getActivePower().
Reading(raw) == IF raw < MinReading THEN 0 ELSE raw

\* Mutant: the neighbour on one side is not looked at.
DespikedOneSided(w) == IF w[2] > 0 /\ w[1] = 0 THEN [w EXCEPT ![2] = 0] ELSE w

\* Spike removal.
Despiked(w) ==
    IF w[2] > 0 /\ w[1] = 0 /\ w[3] = 0 THEN [w EXCEPT ![2] = 0] ELSE w

\* build_json(): a quotient, here by its two parts.
build_json(sum, count) == [sum |-> sum, count |-> IF count = 0 THEN 1 ELSE count]

NoSample == -1

\* One call of loop(): a sample if one is due, then a status if one is to be
\* sent and the node is connected.  The oldest reading of the window is added
\* up; the sums begin anew with a status, the window and the energy do not.
MeterLoop(raw, sends) ==
    LET due == raw # NoSample
        sum == IF due THEN power_sum + power'[1] ELSE power_sum
        count == IF due THEN power_sample_count + 1 ELSE power_sample_count
    IN  /\ \/ /\ due /\ Len(samples) < MaxSamples
              /\ power' = Despiked(<<power[2], power[3], Reading(raw)>>)
              /\ energy' = energy + power'[1]
              /\ samples' = Append(samples, raw)
           \/ ~due /\ UNCHANGED <<power, energy, samples>>
        /\ \/ /\ sends /\ Len(sent) < MaxStatuses
              /\ sent' = Append(sent, [average |-> build_json(sum, count),
                                       at |-> Len(samples')])
              /\ power_sum' = 0 /\ power_sample_count' = 0
           \/ /\ ~sends
              /\ power_sum' = sum /\ power_sample_count' = count
              /\ UNCHANGED sent

MeterInit ==
    /\ power = <<0, 0, 0>> /\ power_sum = 0 /\ power_sample_count = 0
    /\ energy = 0 /\ sent = <<>> /\ samples = <<>>

\* A reset.
MeterRestart ==
    /\ power' = <<0, 0, 0>> /\ power_sum' = 0 /\ power_sample_count' = 0
    /\ energy' = 0 /\ sent' = <<>> /\ samples' = <<>>

MeterNext ==
    \/ \E raw \in {NoSample} \union 0..MaxReading, sends \in BOOLEAN :
          MeterLoop(raw, sends)
    \/ MeterRestart

MeterSpec == MeterInit /\ [][MeterNext]_meterVars

-----------------------------------------------------------------------------
(* Properties.                                                             *)

\* The i-th reading; there are zeros before the first one.
At(i) == IF i \in 1..Len(samples) THEN Reading(samples[i]) ELSE 0

\* What the i-th reading should count for: itself, unless it stands alone
\* between two readings of zero.
Counts(i) == IF At(i - 1) = 0 /\ At(i + 1) = 0 THEN 0 ELSE At(i)

\* What the first n samples push out of the window: each of them the reading
\* of two samples before.
Total[n \in Nat] == IF n = 0 THEN 0 ELSE Total[n - 1] + Counts(n - 2)

\* The samples before the k-th status, and before the one that is next.
Before(k) == IF k = 1 THEN 0 ELSE sent[k - 1].at

\* Every reading goes into the energy, and into the average of exactly one
\* status, for what it should count for: no spike gets in, a spike that was
\* removed already changes nothing for the readings behind it, and no reading
\* is lost or counted again where one status ends and the next begins, be it
\* in the call of loop() that takes a sample or between two samples, or if
\* several statuses fall between two samples.  Those have nothing to average
\* and report 0.
ReadingsCountedOnce ==
    /\ energy = Total[Len(samples)]
    /\ \A k \in 1..Len(sent) :
          sent[k].average = build_json(Total[sent[k].at] - Total[Before(k)],
                                       sent[k].at - Before(k))
=============================================================================
