SPECIFICATION Spec
CONSTANT MaxIterations = 12
PROPERTY RoutedByRouter
