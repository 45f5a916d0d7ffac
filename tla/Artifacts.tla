------------------------------ MODULE Artifacts ------------------------------
(***************************************************************************)
(* What the package promises about the two artifacts of an enrollment, the *)
(* key and the installed certificate, without the steps by which Enroll    *)
(* and Uninstall keep it (status.go, Status and KeyState; the comments of  *)
(* Uninstall in cleanup.go).  An attempt may generate one key and install  *)
(* a certificate for it, and reports once; the key is removed by the       *)
(* attempt itself in the step of its report, or after the report by an     *)
(* uninstall, which removes the certificate first.                         *)
(***************************************************************************)
CONSTANTS Attempts, Pending

VARIABLES
    key,     \* key[a]: the key of attempt a exists
    leaf,    \* leaf[a]: a certificate for that key is installed
    report   \* report[a]: the status and the key state returned, or Pending

artifactVars == <<key, leaf, report>>

ArtifactsInit ==
    /\ key = [a \in Attempts |-> FALSE]
    /\ leaf = [a \in Attempts |-> FALSE]
    /\ report = [a \in Attempts |-> Pending]

Failures == {"not-configured", "unavailable", "enrollment-failed", "invalid-certificate"}

\* The failures that may leave the ownership of the container unproven.
Unproven == {"unavailable", "enrollment-failed"}

Reports(a, status, keyState) ==
    report' = [report EXCEPT ![a] = [status |-> status, keyState |-> keyState]]

\* The key comes into being; when its generation is not certain, in the very
\* step that reports it as unproven.
Generate(a) ==
    /\ report[a] = Pending
    /\ ~key[a]
    /\ key' = [key EXCEPT ![a] = TRUE]
    /\ UNCHANGED report \/ \E status \in Unproven : Reports(a, status, "unproven")
    /\ UNCHANGED leaf

\* A certificate is only installed for a key that is there, before the report,
\* which may follow at once.
Install(a) ==
    /\ report[a] = Pending
    /\ key[a]
    /\ leaf' = [leaf EXCEPT ![a] = TRUE]
    /\ UNCHANGED <<key, report>>

\* The pair is in place and complete.
ReportSuccess(a) ==
    /\ report[a] = Pending
    /\ key[a] /\ leaf[a]
    /\ Reports(a, "success", "none")
    /\ UNCHANGED <<key, leaf>>

\* The certificate was installed; the key stays with it.
ReportIncomplete(a) ==
    /\ report[a] = Pending
    /\ key[a]
    /\ Reports(a, "enrollment-incomplete", "present")
    /\ UNCHANGED <<key, leaf>>

\* A failure says what became of the key, and every failure but
\* "enrollment-failed" that no certificate is installed.
ReportFailure(a) ==
    /\ report[a] = Pending
    /\ \E status \in Failures, keyState \in {"none", "removed", "present", "unproven"} :
          /\ leaf[a] => status = "enrollment-failed"
          /\ status = "not-configured" => keyState = "none"
          /\ status = "invalid-certificate" => keyState \in {"removed", "present"}
          /\ keyState \in {"none", "unproven"} => ~key[a]
          /\ key' = [key EXCEPT ![a] = keyState = "present"]
          /\ keyState \in {"removed", "present"} => key[a]
          /\ Reports(a, status, keyState)
    /\ UNCHANGED leaf

\* The certificate is removed by an uninstall or an administrator.
Withdraw(a) ==
    /\ leaf' = [leaf EXCEPT ![a] = FALSE]
    /\ UNCHANGED <<key, report>>

\* Uninstall removes the key of an enrollment that handed out metadata, once
\* its certificate is gone.
RemoveKey(a) ==
    /\ report[a] # Pending
    /\ report[a].status \in {"success", "enrollment-incomplete"}
    /\ ~leaf[a]
    /\ key' = [key EXCEPT ![a] = FALSE]
    /\ UNCHANGED <<leaf, report>>

ArtifactsNext ==
    \E a \in Attempts :
        \/ Generate(a) \/ Install(a)
        \/ ReportSuccess(a) \/ ReportIncomplete(a) \/ ReportFailure(a)
        \/ Withdraw(a) \/ RemoveKey(a)

ArtifactsSpec == ArtifactsInit /\ [][ArtifactsNext]_artifactVars

-----------------------------------------------------------------------------
(* What follows from the promise *)

\* What a caller who knows only the Result can rely on, for as long as the
\* machine keeps the artifacts: a certificate is installed only if the status
\* lets one expect it, a key is left only if the key state says so, and an
\* installed certificate has its key, with one exception, which the Result shows:
\* the attempt has reported "enrollment-failed" and its key as removed.
ReportIsReliable ==
    \A a \in Attempts :
        /\ leaf[a] /\ report[a] # Pending =>
              report[a].status \in {"success", "enrollment-incomplete", "enrollment-failed"}
        /\ key[a] /\ report[a] # Pending =>
              report[a].status = "success" \/ report[a].keyState \in {"present", "unproven"}
        /\ leaf[a] /\ ~key[a] =>
              report[a] = [status |-> "enrollment-failed", keyState |-> "removed"]
=============================================================================
