---------------------------- MODULE MCSettings ----------------------------
EXTENDS Settings
MCUnits == {Nothing, [Nothing EXCEPT !["backend"] = "mock", !["provider"] = "mock"],
            [Nothing EXCEPT !["hat"] = "0", !["camera"] = "auto", !["mode"] = "ollama"]}
MCFiles == {Nothing, [Nothing EXCEPT !["mode"] = "aihat"],
            [Nothing EXCEPT !["mode"] = "ollama", !["camera"] = "off"],
            [Nothing EXCEPT !["provider"] = "lmstudio"]}
One(k, v) == [x \in {k} |-> v]
Two(k, v, l, w) == [x \in {k, l} |-> IF x = k THEN v ELSE w]
MCUpdates == {One("provider", "ollama"), One("provider", "lmstudio"), Two("provider", Unset, "camera", "other"),
              Two("model", "m2", "camera", "off"), One("model", Unset),
              Two("hat", "1", "backend", "serial"), Two("hat", Unset, "backend", "mock"),
              One("mode", "aihat"), One("mode", "ollama")}
===========================================================================
