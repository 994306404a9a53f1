----------------------------- MODULE MCOpenBao -----------------------------
(* Two starts; earlier releases that had no managed secrets, mounted them    *)
(* with another configuration, or issued no certificates.                    *)
EXTENDS OpenBao

CONSTANTS s1, s2
EarlierSetups == {Pieces \ {"managed_secrets", "managed_configured"},
                  Pieces \ {"managed_configured"},
                  Pieces \ Certificates}
(* One query fails, or all that ask for the certificates, or every one.      *)
OneOrMore == {{p} : p \in Installed} \cup {Certificates \cap Installed, Installed}
=============================================================================
