---------------------------- MODULE MCProjectCLI ----------------------------
EXTENDS ProjectCLI, TLC

CONSTANTS invoice1, invoice2, payment1

\* Two versions of one entity share the logic file, two entities of one version the
\* import.
MCPackage == invoice1 :> "billingv1" @@ invoice2 :> "billingv2" @@ payment1 :> "billingv1"
MCEntity == invoice1 :> "invoice" @@ invoice2 :> "invoice" @@ payment1 :> "payment"
=============================================================================
