------------------------------- MODULE VmCertified -------------------------------
(****************************************************************************)
(* The virtual machine with the certificate of the code that is loaded: the *)
(* program's own when an execution starts, and what LinkedDepth and         *)
(* LinkedRoom make of it when a module is linked.  No action of the machine *)
(* reads the two history variables; they are witnesses of IInv.             *)
(****************************************************************************)
EXTENDS VmSafety

VARIABLES
  certDepth,   \* the operands of the frame, at every address of code
  certRoom     \* its slots

certificate == <<certDepth, certRoom>>

\* The module that the IMPORT_NAME at pc links.
Imported == code.names[Here.arg + 1]

CertificateGrows ==
  LET md == ModuleDepth[Imported]
      mr == ModuleRoom[Imported]
      n  == Len(code.instructions)
  IN  /\ certDepth' = LinkedDepth(certDepth, md, mr, n, pc)
      /\ certRoom' = LinkedRoom(certDepth, certRoom, md, mr, n, pc)

CertifiedInit == Init /\ certDepth = Depth[prog] /\ certRoom = Room[prog]

CertifiedStep ==
  /\ Step
  /\ IF code' = code THEN UNCHANGED certificate ELSE CertificateGrows

CertifiedAgain == ExecuteAgain /\ certDepth' = Depth[prog'] /\ certRoom' = Room[prog']

CertifiedNext == CertifiedStep \/ CertifiedAgain \/ (Finished /\ UNCHANGED certificate)

CertifiedSpec == CertifiedInit /\ [][CertifiedNext]_<<vars, certificate>>

\* The certificate of the loaded code holds good, linked modules included: the
\* current frame and every caller have the operands and the slots it says.
CertifiedHere == Certified(certDepth, certRoom)
================================================================================
