-------------------------- MODULE MCRegistryQueue --------------------------
(* An installation next to the download of another archive, or after it the  *)
(* verification or a second installation of the same release.               *)
EXTENDS RegistryQueue

CONSTANTS o1, o2, h1, h2

MCRequests == {<<o1, "install", h1>>, <<o2, "install", h1>>, <<o2, "archive", h2>>,
               <<o2, "verification", h1>>}

=============================================================================
