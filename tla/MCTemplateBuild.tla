--------------------------- MODULE MCTemplateBuild ---------------------------
(* TemplateBuild with two sources and builders of up to three steps: a source  *)
(* copied twice to one place, to two places, and two sources around a RUN.     *)
EXTENDS TemplateBuild

MCSources == {"app", "lib"}
MCDests   == {"here", "there"}

COPY(src, dest) == [src |-> src, dest |-> dest]

MCPrograms == {<<Run>>,
               <<COPY("app", "here"), Run, COPY("lib", "here")>>,
               <<COPY("app", "here"), COPY("app", "here"), COPY("app", "there")>>}
=============================================================================
