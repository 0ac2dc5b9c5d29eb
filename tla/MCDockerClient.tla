--------------------------- MODULE MCDockerClient ---------------------------
(***************************************************************************)
(* Small instances of DockerClient: two containers and two restarts.       *)
(***************************************************************************)
EXTENDS DockerClient

Kind(names, service, checked) == [names |-> names, service |-> service, checked |-> checked]

\* TeslaMate, its database with a health check, and a container of the database
\* service that goes by TeslaMate's name.
MCKinds ==
    {Kind(<<"teslamate">>, "teslamate", FALSE),
     Kind(<<"database">>, "database", TRUE),
     Kind(<<"teslamate">>, "database", TRUE)}

\* A container that is being replaced loses its name first.
MCRenames == {<<>>}
=============================================================================
