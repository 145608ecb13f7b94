-------------------------- MODULE SequenceNumbers --------------------------
(***************************************************************************)
(* The sequence number of a location (src/nagus/structs.py) is an age's    *)
(* prefix and a page's suffix in one 32-bit number.  The numbers up to     *)
(* 0x20 are local, the ones from 0xff000000 are the server and the global  *)
(* prefixes, which are negative; all the offsets that this leads to are    *)
(* in terms of the parameters here, so that they can be scaled down.       *)
(***************************************************************************)
EXTENDS Integers

CONSTANTS
    Pages,      \* 0x10000, the pages of an age
    Prefixes,   \* 0x10000, so that there are Prefixes * Pages numbers
    Locals,     \* 0x21, the first number that is not local
    Globals,    \* 0xff, the global prefixes
    Safe,       \* 0x7fff, the first prefix that some clients read incorrectly
    VeeTsah     \* 40004, the one such prefix that is accepted

NumberingAssumption ==
    /\ Pages \in Nat /\ Prefixes \in Nat /\ Locals \in Nat
    /\ Globals \in Nat /\ Safe \in Nat /\ VeeTsah \in Nat
    /\ 0 < Locals /\ Locals < Pages
    /\ 0 < Globals /\ 0 < Safe
    /\ Safe < VeeTsah /\ VeeTsah < Prefixes - Globals - 2

ASSUME NumberingAssumption

Numbers == 0..(Prefixes * Pages - 1)

\* 0xff000000
Server == (Prefixes - Globals - 1) * Pages

can_split_sequence_number(n) ==
    n \in Locals..(Prefixes * Pages - 2) /\ n \notin Server..(Server + Pages)

IsGlobal(n) == n > Server + Pages

\* Whether split_sequence_number returns, and does not raise ValueError.
Splits(n) ==
    /\ n \in Numbers
    /\ can_split_sequence_number(n)
    /\ \/ IsGlobal(n)
       \/ n < (Safe + 1) * Pages
       \/ n \in (VeeTsah * Pages + Locals)..(VeeTsah * Pages + Locals + Pages - 1)

split_sequence_number(n) ==
    IF IsGlobal(n)
    THEN <<-((n - Server - 1) \div Pages), (n - Server - 1) % Pages>>
    ELSE <<(n - Locals) \div Pages, (n - Locals) % Pages>>

\* Whether make_sequence_number returns.
Makes(age, page) ==
    /\ age \in -Globals..(Prefixes - Globals - 2)
    /\ age < Safe \/ age = VeeTsah
    /\ page \in 0..(Pages - 1)
    /\ ~(age = Prefixes - Globals - 2 /\ page >= Pages - Locals)
    /\ ~(age = -Globals /\ page \in {Pages - 2, Pages - 1})

make_sequence_number(age, page) ==
    IF age < 0 THEN -age * Pages + page + Server + 1
    ELSE age * Pages + page + Locals

-----------------------------------------------------------------------------
(* What the game server makes of the location of a spawn point             *)
(* (GameClientState.try_find_age_sequence_prefix in game_server.py).       *)

FindsPrefix(n) == n \in Locals..((Safe + 1) * Pages - 1)

AgePrefix(n) == split_sequence_number(n)[1]

\* A mutant: the local numbers are forgotten.
HookNumberUnshifted(n) == AgePrefix(n) * Pages + Pages - 2

\* The location of the AgeSDLHook in that age is on its page 0xfffe.
HookNumber(n) == make_sequence_number(AgePrefix(n), Pages - 2)

\* make_sequence_number raises ValueError, which nothing catches.
HookFails(n) == ~Makes(AgePrefix(n), Pages - 2)
=============================================================================
