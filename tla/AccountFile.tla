---------------------------- MODULE AccountFile ----------------------------
(***************************************************************************)
(* The account file, oscam.user or ncam.user, as the sequence of lines     *)
(* that set_account_disabled reads, edits and writes back (enforce.py).    *)
(*                                                                         *)
(* A line is [kind, value, nl]: a section header ("account" or another     *)
(* "section"), a "user" or a "disabled" key with its value, or any "other" *)
(* line (another key, a comment, a blank), and whether it ends in a        *)
(* newline, which only the last line of a file may lack.                   *)
(***************************************************************************)
EXTENDS Sequences, FiniteSets, SequencesExt

CONSTANTS
    Users,    \* the account names
    NoUser    \* the name of a block without a user line

ASSUME NoUserAssumption == NoUser \notin Users

Kinds  == {"account", "section", "user", "disabled", "other"}
Flags  == {"0", "1"}
Values == Users \cup Flags \cup {"none"}
Line   == [kind : Kinds, value : Values, nl : BOOLEAN]

(* What can be read: every line but the last ends in a newline.             *)
Text == {lines \in Seq(Line) : \A i \in 1 .. Len(lines) - 1 : lines[i].nl}

-----------------------------------------------------------------------------
(* Blocks.                                                                  *)

IsSection(line) == line.kind \in {"account", "section"}

(* The position after the block that starts at `start`.                     *)
BlockEnd(lines, start) ==
    Min({i \in start + 1 .. Len(lines) : IsSection(lines[i])} \cup {Len(lines) + 1})

(* The positions of this kind in the block.                                 *)
InBlock(lines, start, kind) ==
    {i \in start + 1 .. BlockEnd(lines, start) - 1 : lines[i].kind = kind}

(* The block's user is that of its first user line.                         *)
BlockUser(lines, start) ==
    LET named == InBlock(lines, start, "user")
    IN  IF named = {} THEN NoUser ELSE lines[Min(named)].value

Blocks(lines) == {i \in DOMAIN lines : lines[i].kind = "account"}

BlocksOf(lines, u) == {i \in Blocks(lines) : BlockUser(lines, i) = u}

HasAccount(lines, u) == BlocksOf(lines, u) # {}

(* Mutant: the first block, whoever it belongs to.                          *)
FirstBlock(lines, u) == Min(Blocks(lines))

(* The first block of this user.                                            *)
Target(lines, u) == Min(BlocksOf(lines, u))

(* list_account_users                                                       *)
AccountUsers(lines) == {BlockUser(lines, i) : i \in Blocks(lines)} \ {NoUser}

-----------------------------------------------------------------------------
(* The disabled flag.                                                       *)

(* The flag of the block: its first disabled line, or "0" without one.      *)
BlockFlag(lines, start) ==
    LET set == InBlock(lines, start, "disabled")
    IN  IF set = {} THEN "0" ELSE lines[Min(set)].value

Flag(lines, u) == BlockFlag(lines, Target(lines, u))

DisabledLine(flag) == [kind |-> "disabled", value |-> flag, nl |-> TRUE]

(* Mutant: a last line without a newline is not completed.                  *)
CompletedNever(lines, end) == lines

(* The lines with a newline before the position `end`.                      *)
Completed(lines, end) ==
    IF end > Len(lines) THEN [lines EXCEPT ![Len(lines)].nl = TRUE] ELSE lines

(* Mutant: the new line takes the place of the next section header.         *)
SetInBlockOver(lines, start, flag) ==
    LET set == InBlock(lines, start, "disabled")
        end == BlockEnd(lines, start)
    IN  IF set # {} THEN [lines EXCEPT ![Min(set)].value = flag]
        ELSE IF end > Len(lines) THEN Append(Completed(lines, end), DisabledLine(flag))
        ELSE [lines EXCEPT ![end] = DisabledLine(flag)]

(* _set_disabled_in_block: the first disabled line is replaced, keeping its *)
(* newline; without one, a line is added at the end of the block.           *)
SetInBlock(lines, start, flag) ==
    LET set == InBlock(lines, start, "disabled")
        end == BlockEnd(lines, start)
    IN  IF set # {} THEN [lines EXCEPT ![Min(set)].value = flag]
        ELSE InsertAt(Completed(lines, end), end, DisabledLine(flag))

(* What set_account_disabled makes of the lines it has read.                *)
SetFlag(lines, u, flag) == SetInBlock(lines, Target(lines, u), flag)

(* A file is written only if that changes something.                        *)
Written(file, lines, u, flag) ==
    IF SetFlag(lines, u, flag) = lines THEN file ELSE SetFlag(lines, u, flag)

(* The lines a flag has no part in, ...                                     *)
Others(lines) == {i \in DOMAIN lines : lines[i].kind # "disabled"}

(* ... numbered in their order, without their newlines.                     *)
OtherLines(lines) ==
    LET Number(i) == Cardinality({j \in Others(lines) : j <= i})
    IN  {<<Number(i), lines[i].kind, lines[i].value>> : i \in Others(lines)}

=============================================================================
