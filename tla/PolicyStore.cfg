SPECIFICATION Spec
CONSTANTS
  Generators = {g1, g2}
  Updaters = {u1, u2, u3}
  LegacyRows = {l1, l2}
  Contexts = {c1}
  Texts = {t1, t2}
  NoRow = NoRow
SYMMETRY Symmetric
INVARIANTS GeneratedRowIsAlone AnswersAreTrue
PROPERTY ImplementsPromise
CHECK_DEADLOCK FALSE
