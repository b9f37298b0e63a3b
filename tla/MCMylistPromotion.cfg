CONSTANTS
  f1 = f1  f2 = f2  e1 = e1  e2 = e2
  Files = {f1, f2}
  Others = {}
  Episodes = {e1, e2}
  Span <- MCSpan
  Asked = {"yes", "keep"}
  GivenUp = {}
  None = None
SPECIFICATION Spec
PROPERTY RaisesForAReason
