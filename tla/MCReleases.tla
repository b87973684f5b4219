----------------------------- MODULE MCReleases -----------------------------
EXTENDS Releases, TLC

CONSTANTS c1, c2, main, asset

\* the second commit no longer has the asset
MCTreeOf == c1 :> {main, asset} @@ c2 :> {main}

\* every strategy where its programs exist, with and without what makes it
\* create its target
On(strategies, windows, given) ==
    [strategy : strategies, windows : {windows}, entrypoint : given, port : given]

MCTargets ==
    On({"Static files"}, TRUE, {FALSE})
        \cup On({"Static files", "Dockerfile", "Docker Compose", "other"}, FALSE, {FALSE})
        \cup {t \in On({"systemd unit"}, FALSE, BOOLEAN)
                    \cup On({"IIS site swap", "Windows Service"}, TRUE, BOOLEAN) :
                 t.entrypoint = t.port}
=============================================================================
