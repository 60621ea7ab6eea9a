------------------------------ MODULE MCParts -------------------------------
(***************************************************************************)
(* The smaller parts for TLC: Toast, Registry, Download, Services and      *)
(* Text, which share nothing.  A behaviour is one of one part, the others  *)
(* stay as they begin, so that the states of the parts add up and do not   *)
(* multiply.                                                               *)
(***************************************************************************)
EXTENDS Toast, Registry, Download, Services, Text

VARIABLE part

Init ==
    /\ part \in {"toast", "registry", "download", "services", "text"}
    /\ ToastInit /\ (part = "toast" \/ height = Min(Heights))
    /\ RegistryInit
    /\ DownloadInit
    /\ ServicesInit /\ (part = "services" \/ svc = "absent")
    /\ TextInit /\ (part = "text" \/ (current = <<>> /\ next = <<>>))

ToastStep ==
    /\ part = "toast" /\ ToastNext
    /\ UNCHANGED <<part, registryVars, downloadVars, servicesVars, textVars>>

RegistryStep ==
    /\ part = "registry" /\ RegistryNext
    /\ UNCHANGED <<part, toastVars, downloadVars, servicesVars, textVars>>

DownloadStep ==
    /\ part = "download" /\ DownloadNext
    /\ UNCHANGED <<part, toastVars, registryVars, servicesVars, textVars>>

ServicesStep ==
    /\ part = "services" /\ ServicesNext
    /\ UNCHANGED <<part, toastVars, registryVars, downloadVars, textVars>>

TextStep ==
    /\ part = "text" /\ TextNext
    /\ UNCHANGED <<part, toastVars, registryVars, downloadVars, servicesVars>>

vars ==
    <<part, toastVars, registryVars, downloadVars, servicesVars, textVars>>

Next == ToastStep \/ RegistryStep \/ DownloadStep \/ ServicesStep \/ TextStep

Spec == Init /\ [][Next]_vars

\* The types of the parts.
TypesOK ==
    /\ ToastTypeOK /\ RegistryTypeOK /\ DownloadTypeOK
    /\ ServicesTypeOK /\ TextTypeOK
=============================================================================
