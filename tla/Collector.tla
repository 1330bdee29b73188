------------------------------ MODULE Collector ------------------------------
(* The host collector of an agent (nodelite-agent/src/collector_linux.rs,     *)
(* collector_macos.rs, collector/shared.rs): a snapshot is built from kernel  *)
(* counters, and the rates in it from the counters of the snapshot before.    *)
(* On Linux the counters of all interfaces are added.  On macOS the collector *)
(* remembers which interfaces were up, reads only those while the length of   *)
(* the kernel's list stays the same, and falls back to the whole list, then   *)
(* to getifaddrs with its 32-bit counters, then to zeros.  The set that was   *)
(* sampled is its signature: rates are only formed between equal signatures.  *)
(*                                                                            *)
(* Received and sent bytes are treated alike; one of the two is modelled.     *)
(* The warnings about unusual rates change nothing that is reported and are   *)
(* left out, as is the processor usage, which is formed from two samples in   *)
(* the same way.  The loopback interface is not counted, and not modelled.    *)
EXTENDS Integers, FiniteSets, FiniteSetsExt

CONSTANTS
  Interfaces,   \* network interfaces of the host
  Width,        \* getifaddrs reports counters modulo Width (2^32)
  MaxBytes,     \* bound: what one interface can receive
  MaxChanges    \* bound: changes of the set of interfaces

ASSUME CollectorAssumption ==
  /\ IsFiniteSet(Interfaces)
  /\ Width \in Nat \ {0} /\ MaxBytes \in Nat /\ MaxChanges \in Nat

VARIABLES
  platform,         \* "linux" or "macos", fixed when the agent is built
  interface,        \* state of each interface: "absent", "down", "up", "addressed"
  bytes,            \* the kernel's counter of each interface
  cache,            \* NetworkInterfaceCache: list length and indices
  previousNetwork,  \* sample of the last snapshot, or NoSample
  rate,             \* bytes per interval in the last snapshot, or NoRate
  atSample,         \* history: the counters when the last sample was taken
  disturbed,        \* history: interfaces that came, went or started anew since
  actual,           \* history: traffic of the sampled interfaces, or Unknown
  changes           \* bound: changes of interfaces so far

collectorVars == <<platform, interface, bytes, cache, previousNetwork, rate, atSample,
                   disturbed, actual, changes>>

NoSample == [taken |-> FALSE]
NoRate == -1
Unknown == -1

Links == {"absent", "down", "up", "addressed"}
Present == {i \in Interfaces : interface[i] # "absent"}
Running == {i \in Interfaces : interface[i] \in {"up", "addressed"}}

(* One entry for each interface and one for each of its addresses. *)
ListLength ==
  Cardinality(Present) + Cardinality({i \in Interfaces : interface[i] = "addressed"})

TotalOf(counter, S) == MapThenSumSet(LAMBDA i : counter[i], S)

EmptyCache == [len |-> 0, indices |-> {}]

CollectorInit ==
  /\ platform \in {"linux", "macos"}
  /\ interface \in [Interfaces -> {"absent", "addressed"}]
  /\ bytes = [i \in Interfaces |-> 0]
  /\ cache = EmptyCache
  /\ previousNetwork = NoSample
  /\ rate = NoRate
  /\ atSample = bytes
  /\ disturbed = {}
  /\ actual = Unknown
  /\ changes = 0

-----------------------------------------------------------------------------
(* The host *)

Traffic(i) ==
  /\ i \in Running /\ bytes[i] < MaxBytes
  /\ bytes' = [bytes EXCEPT ![i] = @ + 1]
  /\ UNCHANGED <<platform, interface, cache, previousNetwork, rate, atSample, disturbed,
                 actual, changes>>

(* An interface that is plugged in starts with a counter of zero; going down  *)
(* and up again keeps its counter.                                            *)
InterfaceChanges(i) ==
  /\ changes < MaxChanges
  /\ changes' = changes + 1
  /\ \E state \in Links \ {interface[i]} :
       /\ interface' = [interface EXCEPT ![i] = state]
       /\ IF "absent" \in {state, interface[i]}
            THEN /\ bytes' = [bytes EXCEPT ![i] = 0]
                 /\ disturbed' = disturbed \cup {i}
            ELSE UNCHANGED <<bytes, disturbed>>
  /\ UNCHANGED <<platform, cache, previousNetwork, rate, atSample, actual>>

-----------------------------------------------------------------------------
(* A rate is a difference of bytes: the time between two samples is positive. *)
(* Readings of the network counters.  A reading has the sum, the signature,   *)
(* the interfaces it covers and the cache it leaves.                          *)

ByIndex(S) == {<<"idx", i>> : i \in S}
ByName(S) == {<<"name", i>> : i \in S}

(* /proc/net/dev lists every interface, up or down. *)
WholeTable ==
  [total |-> TotalOf(bytes, Present), signature |-> {}, covers |-> Present, cache |-> cache]

CanSampleCached ==
  cache.len = ListLength /\ cache.indices # {} /\ cache.indices \subseteq Running

CachedIndices ==
  [total |-> TotalOf(bytes, cache.indices), signature |-> ByIndex(cache.indices),
   covers |-> cache.indices, cache |-> cache]

InterfaceList ==
  [total |-> TotalOf(bytes, Running), signature |-> ByIndex(Running),
   covers |-> Running, cache |-> [len |-> ListLength, indices |-> Running]]

Addresses ==
  [total |-> TotalOf([i \in Interfaces |-> bytes[i] % Width], Running),
   signature |-> ByName(Running), covers |-> Running, cache |-> EmptyCache]

Zeros == [total |-> 0, signature |-> {}, covers |-> {}, cache |-> EmptyCache]

(* Each call to the system may fail, which leads to the next reading. *)
Readings ==
  IF platform = "linux"
    THEN {WholeTable}
    ELSE {InterfaceList, Addresses, Zeros}
           \cup (IF CanSampleCached THEN {CachedIndices} ELSE {})

-----------------------------------------------------------------------------
(* A snapshot *)

(* Faulty variant: rates are formed without a look at the signatures. *)
RateOfAnySignature(previous, reading) ==
  IF ~previous.taken
    THEN NoRate
    ELSE IF reading.total < previous.total THEN NoRate ELSE reading.total - previous.total

Rate(previous, reading) ==
  IF ~previous.taken
    THEN NoRate
    ELSE IF previous.signature = reading.signature /\ reading.total >= previous.total
           THEN reading.total - previous.total
           ELSE NoRate

(* What really arrived at the interfaces of a reading since the last sample,  *)
(* where that can be told: no counter restarted, on Linux no interface came   *)
(* or went, and no 32-bit counter wrapped in between.                         *)
Arrived(reading) ==
  LET restarted == IF platform = "linux" THEN disturbed ELSE disturbed \cap reading.covers
      wrapped == {i \in reading.covers : bytes[i] \div Width # atSample[i] \div Width}
      narrow == reading.signature = ByName(reading.covers)
  IN  IF restarted # {} \/ (narrow /\ wrapped # {})
        THEN Unknown
        ELSE TotalOf([i \in Interfaces |-> bytes[i] - atSample[i]], reading.covers)

TakeNetworkSample(reading) ==
  /\ previousNetwork' =
       [taken |-> TRUE, total |-> reading.total, signature |-> reading.signature]
  /\ cache' = reading.cache
  /\ atSample' = bytes
  /\ disturbed' = {}
  /\ UNCHANGED <<platform, interface, bytes, changes>>

CollectSnapshot ==
  \E reading \in Readings :
    /\ TakeNetworkSample(reading)
    /\ rate' = Rate(previousNetwork, reading)
    /\ actual' = Arrived(reading)

(* When something that is read after the network fails (load, memory, uptime, *)
(* disks), there is no snapshot and the session ends; the collector keeps the *)
(* new sample for the next session.                                           *)
SnapshotFails ==
  \E reading \in Readings :
    /\ TakeNetworkSample(reading)
    /\ rate' = NoRate
    /\ actual' = Unknown

CollectorNext ==
  \/ \E i \in Interfaces : Traffic(i) \/ InterfaceChanges(i)
  \/ CollectSnapshot
  \/ SnapshotFails

-----------------------------------------------------------------------------
CollectorTypeOK ==
  /\ interface \in [Interfaces -> Links]
  /\ bytes \in [Interfaces -> 0 .. MaxBytes]
  /\ cache.indices \subseteq Interfaces
  /\ cache.len \in 0 .. 2 * Cardinality(Interfaces)
  /\ disturbed \subseteq Interfaces

(* A rate that is reported is the traffic of the interfaces it is about.  The *)
(* set of interfaces changes between two snapshots, cached indices are read   *)
(* although the set changed under the same length, a failed call turns a      *)
(* 64-bit sum into a sum of 32-bit counters or into zeros: none of it may     *)
(* look like traffic (collector_macos.rs, NetworkInterfaceSignature).  Only   *)
(* restarted counters, wrapped 32-bit counters and, on Linux, interfaces that *)
(* came or went may distort a rate.                                           *)
RatesAreReal == rate # NoRate /\ actual # Unknown => rate = actual
=============================================================================
