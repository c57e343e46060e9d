\* The selector is repaired, or no test is ever inserted.
CONSTANTS
    None = None
    Configs = {t1, t2}
    Customers = {u1}
    Handlers = {h1, h2}
    SelectorOutcomes = {"node"}
    KvOutcomes = {"raises"}
SPECIFICATION Spec
INVARIANTS
    OneActiveTest
