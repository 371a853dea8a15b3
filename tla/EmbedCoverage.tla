----------------------------- MODULE EmbedCoverage -----------------------------
(***************************************************************************)
(* The coverage query of the embed-v1 provider and the function coverage() *)
(* of the JavaScript host that asks it twice: once without a buffer for    *)
(* the capacity, once with a buffer of that capacity.  The host's function *)
(* is synchronous: nothing else happens in the instance meanwhile.         *)
(***************************************************************************)
EXTENDS EmbedProvider

CONSTANTS
    RecordCounts,  \* how many coverage records a program may have
    MaxU32,        \* the largest u32 (2^32 - 1 in the code)
    RecordSize     \* bytes of a record (16 in the code)

ASSUME CoverageAssumption ==
    /\ RecordCounts \subseteq Nat
    /\ MaxU32 \in Nat /\ RecordSize \in 2..MaxU32
    /\ (MaxU32 + 1) % RecordSize = 0

VARIABLES
    records,  \* the coverage records of the program: its sites decide, once for all
    query     \* the host's query: how far it is, and the provider's last answer

coverageVars == <<records, query>>

NoAnswer == [status |-> 0, count |-> 0, required |-> 0, written |-> 0]
Idle == [at |-> "idle", capacity |-> 0, answer |-> NoAnswer]

CoverageInit ==
    /\ Init
    /\ records \in RecordCounts
    /\ query = Idle

-----------------------------------------------------------------------------
(* collectCoverage: the counter stops at the largest u32 ... *)
Counted == IF records > MaxU32 THEN MaxU32 ELSE records
(* ... and the records that the buffer holds are written. *)
Written(capacity) ==
    IF Counted < capacity \div RecordSize THEN Counted ELSE capacity \div RecordSize

(* Mutant: the product is not checked and wraps. *)
CoverageAnswerWraps(capacity) ==
    [count |-> Counted, written |-> Written(capacity),
     required |-> (Counted * RecordSize) % (MaxU32 + 1),
     status |-> IF Written(capacity) < Counted THEN 2 ELSE 0]

(* luauc_embed_v1_coverage *)
CoverageAnswer(capacity) ==
    IF records > MaxU32 \/ Counted > MaxU32 \div RecordSize
    THEN [status |-> 2, count |-> Counted, required |-> MaxU32, written |-> Written(capacity)]
    ELSE [status |-> IF Written(capacity) < Counted THEN 2 ELSE 0,
          count |-> Counted, required |-> Counted * RecordSize, written |-> Written(capacity)]

(* get_program_coverage refuses: no room on the Lua stack, no registry. *)
CoverageRefused == [NoAnswer EXCEPT !.status = 1]

(* The host makes a query without a buffer ... *)
Probe(c) ==
    /\ job = None /\ c \in Live
    /\ query.at # "probed"
    /\ \E answer \in {CoverageAnswer(0), CoverageRefused} :
          query' = [at |-> "probed", capacity |-> 0, answer |-> answer]
    /\ UNCHANGED records

(* What the host accepts as an answer of the probe: records that fit. *)
ProbeAccepted ==
    /\ query.at = "probed"
    /\ query.answer.status = (IF query.answer.required = 0 THEN 0 ELSE 2)
    /\ query.answer.required # MaxU32

(* ... gives up, or finds that there is nothing to ask for or no memory ... *)
ProbeEnds ==
    /\ query.at = "probed"
    /\ query' = Idle
    /\ UNCHANGED records

(* ... and asks again with a buffer of the capacity it was told. *)
Ask ==
    /\ ProbeAccepted
    /\ query.answer.required > 0
    /\ \E answer \in {CoverageAnswer(query.answer.required), CoverageRefused} :
          query' = [at |-> "asked", capacity |-> query.answer.required, answer |-> answer]
    /\ UNCHANGED records

QueryStep == (\E c \in Contexts : Probe(c)) \/ ProbeEnds \/ Ask

CoverageNext ==
    \/ Next /\ query.at # "probed" /\ UNCHANGED coverageVars
    \/ QueryStep /\ UNCHANGED vars

(* The provider's fairness: see FairSpec of EmbedProvider. *)
CoverageSpec ==
    /\ CoverageInit
    /\ [][CoverageNext]_<<vars, coverageVars>>
    /\ WF_vars(InvocationStep)

-----------------------------------------------------------------------------
(* The capacity a probe reports is enough: unless the runtime refuses, the *)
(* query that follows answers with every record of the program, the host   *)
(* finds the count and the capacity it expects, and no record was written  *)
(* behind the buffer - also for programs whose records do not fit in 32    *)
(* bits, which the host must have given up before (provider_entry.c:325,   *)
(* host.mjs:391 and 402).                                                  *)
ProbesSuffice ==
    query.at = "asked" /\ query.answer.status # 1 =>
        /\ query.answer.status = 0
        /\ query.answer.required = query.capacity
        /\ query.answer.count * RecordSize = query.capacity
        /\ query.answer.written = records
===============================================================================
