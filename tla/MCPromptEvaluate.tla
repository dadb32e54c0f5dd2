--------------------------- MODULE MCPromptEvaluate ---------------------------
EXTENDS PromptEvaluate

CONSTANTS good, bad, r1, r2

\* Two chunks on one stream exceed the pipe; both streams are used.
MCPrograms == {<< >>, <<"out", "out">>, <<"err", "err", "out">>}

MCFound ==
    [a \in {good, bad} |->
        [t \in {"snyk", "datree", "kube-score"} |->
            IF a = good THEN << >>
            ELSE CASE t = "snyk" -> <<r1, r2, r1>>
                   [] t = "datree" -> <<r1>>
                   [] OTHER -> << >>]]
=============================================================================
