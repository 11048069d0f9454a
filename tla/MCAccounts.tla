----------------------------- MODULE MCAccounts -----------------------------
(* Four machines of the server that share no record, in one run: the        *)
(* initial state picks one of them and every step is a step of that one.    *)
(* The names of KeyRotation, which holds an assumption, are the module's    *)
(* own; the others are instances.                                           *)
EXTENDS KeyRotation, TLC

CONSTANTS Device, Name, Id, Code, Owner, Person, None, MaxEdits,
          HourlyLimit, DailyLimit, MaxPending, MaxCount,
          k0, k1, k2, Starts, Confirms, Stores

(* None stands for what is absent and "local" for a config that names no    *)
(* server: neither is a device or the name of an account.                   *)
ASSUME AccountsAssumption ==
  /\ None \notin Device \cup Name /\ "local" \notin Name \cup {None}
  /\ MaxEdits \in Nat /\ MaxAborts \in Nat /\ MaxCount \in Nat
  /\ IsFiniteSet(Slot)

MCMaxCalls == ("start" :> Starts) @@ ("confirm" :> Confirms) @@ ("store" :> Stores)

VARIABLES part,
  challenge, tenant, claim, listed, cache, post, setup, config, linked, fresh,
  edits, deaths,
  link, lookup, age, create, add, confirm, envelope,
  invite, indexed, aged, hour, day, creation, respond

R == INSTANCE Registration WITH Nonce <- Id, req <- post, aborts <- deaths
D == INSTANCE DeviceLink WITH Newcomer <- Device, wrapped <- envelope
I == INSTANCE Invites WITH Invite <- Id

rvars == <<challenge, tenant, claim, listed, cache, post, setup, config, linked,
           fresh, edits, deaths>>
dvars == <<link, lookup, age, create, add, confirm, envelope>>
ivars == <<invite, indexed, aged, hour, day, creation, respond>>
kvars == vars
allvars == <<part, rvars, dvars, ivars, kvars>>

MCInit ==
  /\ part \in {"registration", "link", "invites", "rotation"}
  /\ R!Init /\ D!Init /\ I!Init /\ Init
  /\ part # "registration" => listed = [g \in Name |-> {}]
  /\ part # "rotation" => wrapped = {}

Registration == part = "registration" /\ R!Next
                /\ UNCHANGED <<part, dvars, ivars, kvars>>
DeviceLink == part = "link" /\ D!Next /\ UNCHANGED <<part, rvars, ivars, kvars>>
Invites == part = "invites" /\ I!Next /\ UNCHANGED <<part, rvars, dvars, kvars>>
KeyRotation == part = "rotation" /\ Next
               /\ UNCHANGED <<part, rvars, dvars, ivars>>

MCNext == Registration \/ DeviceLink \/ Invites \/ KeyRotation

MCSpec == MCInit /\ [][MCNext]_allvars

Symmetry == Permutations(Device) \cup Permutations(Id) \cup Permutations(Slot)

(* Every part keeps its types: see TypeOK of the four modules.              *)
TypesOK == R!TypeOK /\ D!TypeOK /\ I!TypeOK /\ TypeOK

(* See the properties of the same names in the instances; those about key   *)
(* rotation are used as they are.                                           *)
ConfigIsTrue == R!ConfigIsTrue
RemovedKeyNotLinked == R!RemovedKeyNotLinked
LinkRecordsWhole == D!LinkRecordsWhole
DeclineIsFinal == I!DeclineIsFinal
=============================================================================
