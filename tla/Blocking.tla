------------------------------ MODULE Blocking ------------------------------
(***************************************************************************)
(* What a set of block rules kills (utils/blocking.js).                    *)
(*                                                                         *)
(* A path is the sequence of its segments; the root is <<>>.  A rule is a  *)
(* path and kills itself and everything under it, except that the root     *)
(* kills only itself.  A host's rules are a list in the code, kept sorted  *)
(* or in the order of a hand-edited file; nothing depends on the order, or *)
(* on a rule listed twice, and they are a set here.                        *)
(***************************************************************************)
EXTENDS Integers, Sequences

CONSTANTS
    Segment,  \* what stands between two slashes
    Path,     \* the paths rules and requests are about
    Gap,      \* the empty text between two slashes
    NoRule    \* blockCovering's null

ASSUME BlockingAssumption == Path \subseteq Seq(Segment) /\ NoRule \notin Path

(* normalizeBlockPath, of a text without its query and split at its        *)
(* slashes.  The empty text is no path.                                    *)
Usable(raw) == raw # <<>> /\ raw # <<Gap>>
Normalized(raw) == SelectSeq(raw, LAMBDA part : part # Gap)

(* `target.startsWith(rule + "/")`: segment by segment, so that /orders    *)
(* does not kill /orders-archive.                                          *)
StartsWith(target, rule) ==
    Len(rule) < Len(target) /\ \A i \in 1..Len(rule) : target[i] = rule[i]

Covers(rule, target) ==
    \/ rule = target
    \/ rule # <<>> /\ StartsWith(target, rule)

IsBlocked(path, rules) == \E rule \in rules : Covers(rule, path)

(* The most specific of the rules that kill the path. *)
BlockCovering(path, rules) ==
    IF IsBlocked(path, rules)
    THEN CHOOSE rule \in rules :
            /\ Covers(rule, path)
            /\ \A r \in rules : Covers(r, path) => Len(r) <= Len(rule)
    ELSE NoRule

(* Mutant of AddBlock: the rules the new one covers are kept. *)
AddBlock_Keeping(rules, path) ==
    IF IsBlocked(path, rules) THEN rules ELSE rules \cup {path}
AddBlock(rules, path) ==
    IF IsBlocked(path, rules) THEN rules
    ELSE {rule \in rules : ~ Covers(path, rule)} \cup {path}

(* Exact: only the rule that names the path. *)
RemoveBlock(rules, path) == rules \ {path}

(* What a set of rules kills, and the sets without a rule that decides     *)
(* nothing.                                                                *)
Kills(rules) == {path \in Path : IsBlocked(path, rules)}
Lean(rules) == \A r, q \in rules : Covers(r, q) => r = q
=============================================================================
