----------------------------- MODULE MCScorecard ------------------------------
EXTENDS ScoreOutput

\* A deployment, read twice from two files: the second copy is without its
\* template, so that it is in fewer loops.
MCObjects == << [ref |-> "app", kinds |-> {"Metas", "PodSpeccers"}],
                [ref |-> "app", kinds |-> {"Metas"}] >>

MCChecks == { [id |-> "label-values", type |-> "Metas", optional |-> FALSE],
              [id |-> "ephemeral-storage", type |-> "Pods", optional |-> FALSE],
              [id |-> "seccomp-profile", type |-> "Pods", optional |-> TRUE] }

MCImplied == [id \in {"container-resources"} |-> {"ephemeral-storage"}]

\* Of one check the two say the opposite, of another only the first one speaks,
\* and by a name that implies it.
MCAnnotations ==
    { [ignore |-> {"container-resources"}, enable |-> {"seccomp-profile"}],
      [ignore |-> {"seccomp-profile"}, enable |-> {}] }

MCEnabled == {{}, {"seccomp-profile"}}
MCIgnored == {{}, {"label-values"}}

\* Every format, the human one with the most and the least, and a version that
\* there is not.
MCOutputs ==
    {[format |-> f, version |-> "", verbose |-> 0] : f \in Formats}
    \cup {[format |-> "human", version |-> "v1", verbose |-> 2],
          [format |-> "json", version |-> "v3", verbose |-> 0]}
=============================================================================
