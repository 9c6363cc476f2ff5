----------------------------- MODULE Credentials ------------------------------
(***************************************************************************)
(* crates/auth: what verifying a password decides and what it costs.  A    *)
(* stored hash is text; what matters of it is which password it was made   *)
(* of and how far argon2 gets with it.                                     *)
(***************************************************************************)
EXTENDS Naturals

\* The last one is the dummy hash's, known to everybody.
Passwords == {"right", "wrong", "fixture-dummy-password"}

\* How a stored hash can be: unusable text, a structure without salt or output,
\* parameters argon2 refuses before doing any work, or a hash.
Forms == {"unparsed", "incomplete", "refused", "whole"}

PHCs == [form : Forms, of : Passwords]

DUMMY_PASSWORD_HASH == [form |-> "whole", of |-> "fixture-dummy-password"]

\* argon2's own answer, and the work done for it
argon2(password, phc) ==
    IF phc.form = "refused" THEN [answer |-> "Err", work |-> 0]
    ELSE [answer |-> IF password = phc.of THEN "Ok" ELSE "PasswordInvalid", work |-> 1]

\* Mutant of verify_with: an unusable hash is refused at once.
verify_plainly(password, phc) ==
    IF phc.form \in {"unparsed", "incomplete"} THEN [ok |-> FALSE, work |-> 0]
    ELSE [ok |-> argon2(password, phc).answer = "Ok", work |-> argon2(password, phc).work]

\* Only a match or a mismatch is the stored hash's; the dummy is verified for the rest,
\* and its answer dropped.
verify_with(password, phc) ==
    LET decided == phc.form \in {"refused", "whole"}
                       /\ argon2(password, phc).answer # "Err"
    IN [ok |-> decided /\ argon2(password, phc).answer = "Ok",
        work |-> argon2(password, IF decided THEN phc ELSE DUMMY_PASSWORD_HASH).work]
===============================================================================
