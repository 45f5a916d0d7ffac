--------------------------- MODULE ValidationCall ---------------------------
(***************************************************************************)
(* One call of ValidateCertificate as a state machine: a parsed leaf, the  *)
(* expected public key and the intermediates of the material come in, a    *)
(* verdict comes out.                                                      *)
(***************************************************************************)
EXTENDS Validation

VARIABLES
    validateCall,    \* the arguments, once parseCertificate has succeeded
    validateVerdict  \* "pending" until the call returns

validateVars == <<validateCall, validateVerdict>>

ValidateCalls ==
    [cert : Certificate, key : PublicKeys \cup {NoPublicKey},
     intermediates : SUBSET Authorities]

ValidationInit ==
    /\ validateCall \in ValidateCalls
    /\ validateVerdict = "pending"

\* The call runs its checks to the first that fails, or to the end.
Check ==
    /\ validateVerdict = "pending"
    /\ validateVerdict' =
          IF ValidateCertificate(validateCall.cert, validateCall.key, validateCall.intermediates)
          THEN "accepted" ELSE "rejected"
    /\ UNCHANGED validateCall

ValidationSpec == ValidationInit /\ [][Check]_validateVars

-----------------------------------------------------------------------------
\* A certificate is accepted exactly when it meets the localhost policy of
\* docs/README.md section 10: the order and number of the early returns, the
\* SAN loop and the path building neither let anything through nor refuse a
\* certificate they should take (ValidateCertificate, validate.go).
AcceptsExactlyPolicy ==
    validateVerdict # "pending" =>
        (validateVerdict = "accepted") =
            MeetsLocalhostPolicy(validateCall.cert, validateCall.key, validateCall.intermediates)
=============================================================================
